---- MODULE Spec2Model ----
(***************************************************************************)
(* pgmeta: model of one export run.                                        *)
(*                                                                         *)
(*   Spec       discovery (QueryObjects), the concurrent definition fetch  *)
(*              (FetchObjectsDefinitionsConcurrently) and the Exporter     *)
(*              (ExportObjects, exportTableObjects, exportStandaloneObjects*)
(*              with their worker pools) over a small filesystem.          *)
(*   SpecMkdir  safelyMkdir at the grain of its single statements, called  *)
(*              by concurrent workers.                                     *)
(*                                                                         *)
(* Paths are sequences of path components; a descriptor is a record with   *)
(* the fields of types.DBObject.                                           *)
(***************************************************************************)
EXTENDS Integers, Sequences, FiniteSets, TLC

\* ---------------------------------------------------------------- bounds
\* Longest list of rows the catalog returns in one run.
MaxObjs == 2
\* Largest worker count given to WithConcurrency.
MaxWorkers == 2
\* Most filesystem operations that fail in one run of the worker pools.
MaxPoolFaults == 2
\* Most filesystem operations that fail in one run.
MaxFaults == 1

\* ------------------------------------------------------ program constants
\* exportTableObjects: make(chan fileExportTask, len(tableObjects)*4)
TasksBufferPerTable == 4
\* FetchObjectsDefinitionsConcurrently: concurrency = 10 when concurrency <= 0
DefaultFetchConcurrency == 10

\* ------------------------------------------------------------ data model
\* types.DBObject
DBObject(t, s, n, tbl, def) ==
  [Type |-> t, Schema |-> s, Name |-> n, TableName |-> tbl, Definition |-> def]

\* The rows the catalog of the modelled database can return.  A constraint
\* carries its definition from discovery (queryConstraints); every other
\* type is discovered with an empty definition.
CatalogRows ==
  { DBObject("table",      "s1", "t1", "",   ""),
    DBObject("table",      "s1", "t2", "",   ""),
    DBObject("index",      "s1", "i1", "t1", ""),
    DBObject("constraint", "s1", "c1", "t1", "CHECK (c1)"),
    DBObject("trigger",    "s1", "g1", "",   ""),
    DBObject("policy",     "s1", "p1", "t1", ""),
    DBObject("sequence",   "s2", "q1", "",   ""),
    DBObject("view",       "s2", "v1", "",   "") }

\* The schemas of the request, in request order.
RequestSchemas == <<"s1", "s2">>

\* outputDir of the Exporter
OutputDir == <<"out">>

RECURSIVE SeqsUpTo(_, _)
SeqsUpTo(S, n) ==
  IF n = 0 THEN { <<>> }
  ELSE LET shorter == SeqsUpTo(S, n - 1)
       IN  shorter \cup { Append(q, x) : q \in { r \in shorter : Len(r) = n - 1 }, x \in S }

Range(q) == { q[i] : i \in 1..Len(q) }

\* --------------------------------------------------------------- paths
\* filepath.Join: joins the components, ignoring empty ones.
Join(parts) == SelectSeq(parts, LAMBDA c : c # "")

\* filepath.Dir
Dir(path) == SubSeq(path, 1, Len(path) - 1)

IsPrefix(p, q) == Len(p) <= Len(q) /\ SubSeq(q, 1, Len(p)) = p

\* os.MkdirAll creates the directory along with any necessary parents.
MkdirAll(dirset, dir) == dirset \cup { SubSeq(dir, 1, k) : k \in 1..Len(dir) }


\* ------------------------------------------------------------ the state
VARIABLES
  continueOnError,  \* the error policy: TRUE is warn, FALSE is fail
  concurrency,      \* Exporter.concurrency
  pc,               \* where the calling goroutine is
  schemaIdx,        \* QueryObjects: index of the next schema of the request
  objects,          \* QueryObjects: the descriptors collected so far
  results,          \* FetchObjectsDefinitionsConcurrently: its copy of the list
  fetchTask,        \* state of the goroutine of each slot of results
  failedObjects,    \* the mutex-guarded list of "schema.name" strings
  dirs,             \* filesystem: the directories that exist
  files,            \* filesystem: path -> content of the files that exist
  schemasLeft,      \* ExportObjects: schemas the range loop has not visited
  schema,           \* the schema argument of the running export call
  groupsLeft,       \* table names (type names) the producer loop has not visited
  sendQ,            \* tasks of the current group not yet sent on the channel
  tasks,            \* the tasks channel: [buf, cap, closed]
  workers,          \* number of worker goroutines of the running pool still in their loop
  errChan,          \* the single-slot error channel
  errCount,         \* the error counter of continue-on-error mode
  ret,              \* what ExportObjects returned: [kind, info]
  faults,           \* number of filesystem operations that failed so far
  made,             \* history: directories this run created
  written,          \* history: [path, content, schema] of every file write done
  errLog,           \* history: the errors of the export stage, in order
  retPending,       \* history: the value of workers when ExportObjects returned
  dirMutexes,       \* Exporter.dirMutexes: directory path -> mutex
  mtxHeld,          \* the mutexes that are locked
  mk,               \* SpecMkdir: the safelyMkdir call of each goroutine
  qry,              \* SpecQuery: the QueryOptions and the position of QueryObjects
  cancelled,        \* the context given to ExportObjects is cancelled
  connections,      \* Config.Connections
  callErrors,       \* history: the errors that calls on the Config have returned
  logs,             \* the log messages and the error text of the last command
  run               \* runExport: its flags and what it has done so far

vars == << continueOnError, concurrency, pc, schemaIdx, objects, results,
           fetchTask, failedObjects, dirs, files, schemasLeft, schema, groupsLeft,
           sendQ, tasks, workers, errChan, errCount, ret, faults, made, written,
           errLog, retPending, dirMutexes, mtxHeld, mk, qry,
           cancelled, connections, callErrors, logs, run >>

fetchVars  == << results, fetchTask, failedObjects >>
fsVars     == << dirs, files, faults, made, written >>
poolVars   == << schema, groupsLeft, sendQ, tasks, workers, errChan, errCount >>
inputVars  == << continueOnError, concurrency >>
mkdirVars  == << dirMutexes, mtxHeld, mk >>
queryVars  == << qry >>
ctxVars    == << cancelled >>
configVars == << connections, callErrors, logs >>
runVars    == << run >>
cliVars    == << ctxVars, configVars, runVars >>

NoChan == [buf |-> <<>>, cap |-> 0, closed |-> FALSE]
NoRet  == [kind |-> "none", info |-> <<>>]
Err(kind, info) == [kind |-> kind, info |-> info]

\* No context is cancelled, no Config is loaded and runExport is not running.
CliIdle ==
  /\ cancelled = FALSE
  /\ connections = <<>>
  /\ callErrors = {}
  /\ logs = {}
  /\ run = << >>

Init ==
  /\ continueOnError \in BOOLEAN
  /\ concurrency \in 1..MaxWorkers
  /\ pc = "QueryObjects"
  /\ schemaIdx = 1
  /\ objects = <<>>
  /\ results = <<>>
  /\ fetchTask = <<>>
  /\ failedObjects = <<>>
  /\ dirs \in { {}, {OutputDir} }
  /\ files = << >>
  /\ schemasLeft = {}
  /\ schema = ""
  /\ groupsLeft = {}
  /\ sendQ = <<>>
  /\ tasks = NoChan
  /\ workers = 0
  /\ errChan = <<>>
  /\ errCount = 0
  /\ ret = NoRet
  /\ faults = 0
  /\ made = {}
  /\ written = {}
  /\ errLog = <<>>
  /\ retPending = 0
  /\ CliIdle
  /\ dirMutexes = << >>
  /\ mtxHeld = {}
  /\ mk = << >>
  /\ qry = << >>

\* ------------------------------------------------------------ discovery
\* The per-schema queries of QueryObjects, in the order it issues them; tables
\* and views come from one query.
SchemaQueries ==
  << {"table", "view"}, {"function"}, {"trigger"}, {"index"}, {"constraint"},
     {"sequence"}, {"materialized_view"}, {"policy"}, {"extension"},
     {"procedure"}, {"rule"}, {"aggregate"} >>

RECURSIVE QuerySchemaFrom(_, _, _)
QuerySchemaFrom(rows, s, k) ==
  IF k > Len(SchemaQueries) THEN <<>>
  ELSE SelectSeq(rows, LAMBDA d : d.Schema = s /\ d.Type \in SchemaQueries[k])
         \o QuerySchemaFrom(rows, s, k + 1)

\* What one iteration of the schema loop of QueryObjects appends.
QuerySchema(rows, s) == QuerySchemaFrom(rows, s, 1)

\* The rows of the catalog that lie in schema s.
RowsOf(s) == { d \in CatalogRows : d.Schema = s }

\* QueryObjects, one iteration of "for _, schema := range opts.Schemas"; rows
\* are the rows the database returns to the queries of this iteration.
QueryObjectsSchema ==
  /\ pc = "QueryObjects"
  /\ schemaIdx <= Len(RequestSchemas)
  /\ \E rows \in SeqsUpTo(RowsOf(RequestSchemas[schemaIdx]), MaxObjs - Len(objects)) :
       objects' = objects \o QuerySchema(rows, RequestSchemas[schemaIdx])
  /\ schemaIdx' = schemaIdx + 1
  /\ UNCHANGED << pc, ret, errLog, retPending, schemasLeft >>
  /\ UNCHANGED << fetchVars, fsVars, poolVars, inputVars, mkdirVars, queryVars, cliVars >>

\* QueryObjects returns; runExport ends when nothing was found and calls
\* SaveObjects -> ExportObjects otherwise.
QueryObjectsReturn ==
  /\ pc = "QueryObjects"
  /\ schemaIdx > Len(RequestSchemas)
  /\ IF Len(objects) = 0
       THEN pc' = "Done" /\ ret' = Err("no_objects", <<>>)
       ELSE pc' = "Fetch" /\ ret' = ret
  /\ UNCHANGED << schemaIdx, objects, errLog, retPending, schemasLeft >>
  /\ UNCHANGED << fetchVars, fsVars, poolVars, inputVars, mkdirVars, queryVars, cliVars >>

\* ------------------------------------------------------ definition fetch
\* "if concurrency <= 0 { concurrency = 10 }"
FetchConcurrency(c) == IF c <= 0 THEN DefaultFetchConcurrency ELSE c

\* The definition the database holds for a descriptor.
DDL(d) == "CREATE " \o d.Type \o " " \o d.Schema \o "." \o d.Name

\* fmt.Sprintf("%s.%s", results[idx].Schema, results[idx].Name)
FailedName(d) == d.Schema \o "." \o d.Name

\* The types that the switch of FetchObjectDefinition has a case for; a
\* constraint carries its definition from discovery and has none.
FetchableTypes ==
  { "table", "view", "function", "trigger", "index", "sequence", "materialized_view",
    "policy", "extension", "procedure", "publication", "subscription", "rule",
    "aggregate" }

\* What FetchObjectDefinition can do for a descriptor without a definition: any
\* other type ends in "Unsupported object type".
FetchOutcomes(d) == IF d.Type \in FetchableTypes THEN {"ok", "error"} ELSE {"unsupported"}

\* FetchObjectDefinition with the context of the call: "c.db.QueryRowContext(ctx,
\* query, args...).Scan(&definition)" returns the error of a cancelled context.
FetchOutcomesCtx(d, ctxCancelled) ==
  IF ctxCancelled /\ d.Type \in FetchableTypes THEN {"error"} ELSE FetchOutcomes(d)

\* A descriptor that is never taken to have a definition.
HasDefinition_Never(d) == FALSE

\* "results[i].Definition != """ / "obj.Definition != """
HasDefinition(d) == d.Definition # ""

\* make without copy: a list of zero descriptors.
CopyObjects_Blank(objs) == [i \in 1..Len(objs) |-> DBObject("", "", "", "", "")]

\* "results := make([]types.DBObject, len(objects)); copy(results, objects)"
CopyObjects(objs) == objs

\* An append whose update of the list is lost.
AppendFailed_LostUpdate(list, name) == << name >>

\* "failedObjects = append(failedObjects, ...)" between failedMutex.Lock() and
\* Unlock()
AppendFailed(list, name) == Append(list, name)

\* A semaphore that always has room.
SemHasRoom_Always(n, c) == TRUE

\* A semaphore that never has room.
SemHasRoom_Never(n, c) == FALSE

\* "sem <- struct{}{}" goes through when fewer than cap(sem) slots are taken.
SemHasRoom(n, c) == n < c

\* FetchObjectsDefinitionsConcurrently up to wg.Wait: copy the list and start
\* one goroutine for every slot without a definition.
FetchStart ==
  /\ pc = "Fetch"
  /\ results' = CopyObjects(objects)
  /\ fetchTask' = [i \in 1..Len(objects) |->
                     IF HasDefinition(CopyObjects(objects)[i]) THEN "skip" ELSE "wait"]
  /\ failedObjects' = <<>>
  /\ pc' = "FetchWait"
  /\ UNCHANGED << schemaIdx, objects, ret, errLog, retPending, schemasLeft >>
  /\ UNCHANGED << fsVars, poolVars, inputVars, mkdirVars, queryVars, cliVars >>

Running == { i \in DOMAIN fetchTask : fetchTask[i] = "run" }

\* "sem := make(chan struct{}, concurrency)"
SemCapacity == FetchConcurrency(concurrency)

\* "sem <- struct{}{}"
FetchAcquire(i) ==
  /\ fetchTask[i] = "wait"
  /\ SemHasRoom(Cardinality(Running), SemCapacity)
  /\ fetchTask' = [fetchTask EXCEPT ![i] = "run"]
  /\ UNCHANGED << results, failedObjects >>
  /\ UNCHANGED << pc, schemaIdx, objects, ret, errLog, retPending, schemasLeft >>
  /\ UNCHANGED << fsVars, poolVars, inputVars, mkdirVars, queryVars, cliVars >>

\* A task that works on the last slot, whatever its index.
SlotOf_Last(i) == Len(results)

\* "go func(idx int) { ... &results[idx] ... }(i)": the goroutine started for
\* index i works on slot i of the copy.
SlotOf(i) == i

\* FetchObjectDefinition on the slot, the append to failedObjects under
\* failedMutex when it fails, and the release of the semaphore slot.
FetchFinish(i) ==
  /\ fetchTask[i] = "run"
  /\ LET slot == SlotOf(i) IN
     IF HasDefinition(results[slot])
       THEN /\ UNCHANGED << results, failedObjects >>
            /\ fetchTask' = [fetchTask EXCEPT ![i] = "done"]
       ELSE \E o \in FetchOutcomesCtx(results[slot], cancelled) :
              IF o = "ok"
                THEN /\ results' = [results EXCEPT ![slot].Definition = DDL(results[slot])]
                     /\ failedObjects' = failedObjects
                     /\ fetchTask' = [fetchTask EXCEPT ![i] = "done"]
                ELSE /\ results' = results
                     /\ failedObjects' = AppendFailed(failedObjects, FailedName(results[slot]))
                     /\ fetchTask' = [fetchTask EXCEPT ![i] = "failed"]
  /\ UNCHANGED << pc, schemaIdx, objects, ret, errLog, retPending, schemasLeft >>
  /\ UNCHANGED << fsVars, poolVars, inputVars, mkdirVars, queryVars, cliVars >>

\* A wait that does not wait.
FetchWaitDone_NoWait == TRUE

\* wg.Wait() of FetchObjectsDefinitionsConcurrently.
FetchWaitDone == \A i \in DOMAIN fetchTask : fetchTask[i] \in {"skip", "done", "failed"}

FetchReturn ==
  /\ pc = "FetchWait"
  /\ FetchWaitDone
  /\ pc' = "CheckFailed"
  /\ UNCHANGED << schemaIdx, objects, ret, errLog, retPending, schemasLeft >>
  /\ UNCHANGED << fetchVars, fsVars, poolVars, inputVars, mkdirVars, queryVars, cliVars >>

\* ---------------------------------------------------- the Exporter: layout
\* InTableMap without the test of obj.TableName.
InTableMap_IgnoresTableName(d) ==
  d.Type \in {"table", "trigger", "index", "constraint"}

\* ExportObjects, "switch obj.Type": a table, and a trigger, index or
\* constraint with a table name, go to the table map; the rest is standalone.
InTableMap(d) ==
  \/ d.Type = "table"
  \/ d.Type \in {"trigger", "index", "constraint"} /\ d.TableName # ""

\* The key of schemaObjects[obj.Schema] the descriptor is appended to.
TableKey(d) == IF d.Type = "table" THEN d.Name ELSE d.TableName

\* schemaObjects[s][t]
TableObjects(objs, s, t) ==
  SelectSeq(objs, LAMBDA d : d.Schema = s /\ InTableMap(d) /\ TableKey(d) = t)

\* the keys of schemaObjects[s]
TableNames(objs, s) ==
  { TableKey(d) : d \in { x \in Range(objs) : x.Schema = s /\ InTableMap(x) } }

\* schemaStandalone[s]
Standalone(objs, s) == SelectSeq(objs, LAMBDA d : d.Schema = s /\ ~InTableMap(d))

\* typeGroups[objType] of exportStandaloneObjects
TypeGroup(objs, s, ty) == SelectSeq(Standalone(objs, s), LAMBDA d : d.Type = ty)

StandaloneTypes(objs, s) == { d.Type : d \in Range(Standalone(objs, s)) }

\* The schema directory of an Exporter that does not partition by schema.
SchemaDir_NoSchema(s) == OutputDir

\* schemaDir := filepath.Join(e.outputDir, schema)
SchemaDir(s) == Join(OutputDir \o <<s>>)
TablesDir(s) == Join(SchemaDir(s) \o <<"tables">>)
TableDir(s, t) == Join(TablesDir(s) \o <<t>>)

\* exportTableObjects, "switch obj.Type" of the producer loop
TableTaskPath(s, t, d) ==
  CASE d.Type = "table"      -> Join(TableDir(s, t) \o <<"table.sql">>)
    [] d.Type = "trigger"    -> Join(TableDir(s, t) \o <<"triggers", d.Name \o ".sql">>)
    [] d.Type = "index"      -> Join(TableDir(s, t) \o <<"indexes", d.Name \o ".sql">>)
    [] d.Type = "constraint" -> Join(TableDir(s, t) \o <<"constraints", d.Name \o ".sql">>)

\* exportStandaloneObjects: dir := filepath.Join(schemaDir, string(objType)+"s")
StandaloneDir(s, ty) == Join(SchemaDir(s) \o <<ty \o "s">>)
StandaloneTaskPath(s, d) == Join(StandaloneDir(s, d.Type) \o <<d.Name \o ".sql">>)

\* fileExportTask
Task(path, d) == [path |-> path, content |-> d.Definition]

MapSeq(q, F(_)) == [i \in 1..Len(q) |-> F(q[i])]

TableTasks(objs, s, t) ==
  MapSeq(TableObjects(objs, s, t), LAMBDA d : Task(TableTaskPath(s, t, d), d))

StandaloneTasks(objs, s, ty) ==
  MapSeq(TypeGroup(objs, s, ty), LAMBDA d : Task(StandaloneTaskPath(s, d), d))

\* The file a descriptor of the list is exported to.
ExportPath(d) ==
  IF InTableMap(d) THEN TableTaskPath(d.Schema, TableKey(d), d)
  ELSE StandaloneTaskPath(d.Schema, d)

\* ------------------------------------------------- the Exporter: filesystem
\* The failures one run can have: MaxPoolFaults where the run is that of the
\* worker pools on their own, MaxFaults elsewhere.
FaultBudget == IF DOMAIN run = {"faultBudget"} THEN run.faultBudget ELSE MaxFaults

CanFail == faults < FaultBudget

\* A write that appends to the file instead of replacing its content.
WriteFile_Append(fs, path, content) ==
  [p \in DOMAIN fs \cup {path} |->
     IF p = path THEN (IF path \in DOMAIN fs THEN fs[path] \o content ELSE content)
     ELSE fs[p]]

\* os.WriteFile(path, content, 0644)
WriteFile(fs, path, content) ==
  [p \in DOMAIN fs \cup {path} |-> IF p = path THEN content ELSE fs[p]]

\* safelyMkdir(dir) returning nil: the directory and its parents exist.
SafelyMkdirOk(dir) ==
  /\ dirs' = MkdirAll(dirs, dir)
  /\ made' = made \cup (MkdirAll(dirs, dir) \ dirs)

\* The check with the policy flag inverted.
AbortOnFetchFailure_Inverted(failed, coe) == Len(failed) > 0 /\ coe

\* The check without the policy flag: any failure aborts.
AbortOnFetchFailure_Always(failed, coe) == Len(failed) > 0

\* ExportObjects: "if len(failedObjects) > 0 { if continueOnError {warn} else {return error} }"
AbortOnFetchFailure(failed, coe) == Len(failed) > 0 /\ ~coe

Return(r) ==
  /\ ret' = r
  /\ pc' = "Done"
  /\ retPending' = workers

Panic ==
  /\ ret' = Err("panic", <<>>)
  /\ pc' = "Panic"
  /\ retPending' = retPending

\* a fresh tasks channel, error channel and worker pool of one export call
StartPool(s, cap) ==
  /\ schema' = s
  /\ tasks' = [buf |-> <<>>, cap |-> cap, closed |-> FALSE]
  /\ workers' = concurrency
  /\ errChan' = <<>>
  /\ errCount' = 0
  /\ sendQ' = <<>>

\* ExportObjects after the fetch: the check of the failed list.
CheckFailed ==
  /\ pc = "CheckFailed"
  /\ IF AbortOnFetchFailure(failedObjects, continueOnError)
       THEN Return(Err("fetch_failed", failedObjects))
       ELSE pc' = "MkOutputDir" /\ UNCHANGED << ret, retPending >>
  /\ UNCHANGED << schemaIdx, objects, errLog, schemasLeft >>
  /\ UNCHANGED << fetchVars, fsVars, poolVars, inputVars, mkdirVars, queryVars, cliVars >>

\* ExportObjects: the grouping and safelyMkdir(e.outputDir).
MkOutputDir ==
  /\ pc = "MkOutputDir"
  /\ \/ /\ SafelyMkdirOk(OutputDir)
        /\ schemasLeft' = { d.Schema : d \in Range(results) }
        /\ pc' = "SchemaLoop"
        /\ UNCHANGED << ret, retPending, faults, errLog >>
     \/ /\ CanFail
        /\ faults' = faults + 1
        /\ errLog' = Append(errLog, Err("mkdir", OutputDir))
        /\ Return(Err("mkdir", OutputDir))
        /\ UNCHANGED << dirs, made, schemasLeft >>
  /\ UNCHANGED << schemaIdx, objects, files, written >>
  /\ UNCHANGED << fetchVars, poolVars, inputVars, mkdirVars, queryVars, cliVars >>

\* exportStandaloneObjects(schema, ...) is entered: its pool starts.
StartStandalone(s) ==
  /\ StartPool(s, Len(Standalone(results, s)))
  /\ groupsLeft' = StandaloneTypes(results, s)
  /\ pc' = "StandaloneSchemaDir"

\* ExportObjects: "for schema, tableObjects := range schemaObjects", one
\* iteration up to the first export call it makes, or the return after the last.
SchemaLoop ==
  /\ pc = "SchemaLoop"
  /\ IF schemasLeft = {}
       THEN /\ Return(Err("ok", <<>>))
            /\ UNCHANGED << schemasLeft, poolVars >>
       ELSE \E s \in schemasLeft :
              /\ schemasLeft' = schemasLeft \ {s}
              /\ UNCHANGED << ret, retPending >>
              /\ IF TableNames(results, s) # {}
                   THEN /\ StartPool(s, Cardinality(TableNames(results, s)) * TasksBufferPerTable)
                        /\ groupsLeft' = TableNames(results, s)
                        /\ pc' = "TableLoop"
                   ELSE StartStandalone(s)
  /\ UNCHANGED << schemaIdx, objects, errLog >>
  /\ UNCHANGED << fetchVars, fsVars, inputVars, mkdirVars, queryVars, cliVars >>

\* ------------------------------------------------ the Exporter: producers
\* A safelyMkdir of a producer loop failed: "close(tasks)", then "continue"
\* under continueOnError and "return err" otherwise.  Closing a closed channel
\* panics.
ProducerMkdirFailed(dir, g) ==
  /\ faults' = faults + 1
  /\ errLog' = Append(errLog, Err("mkdir", dir))
  /\ IF tasks.closed
       THEN Panic /\ UNCHANGED << tasks, groupsLeft >>
       ELSE /\ tasks' = [tasks EXCEPT !.closed = TRUE]
            /\ IF continueOnError
                 THEN groupsLeft' = groupsLeft \ {g} /\ UNCHANGED << pc, ret, retPending >>
                 ELSE Return(Err("mkdir", dir)) /\ UNCHANGED groupsLeft

\* exportTableObjects: one iteration of "for tableName, objs := range
\* tableObjects" up to its first send: the three safelyMkdir calls.  k is the
\* call that fails, 0 when none does.
TableNext ==
  /\ pc = "TableLoop"
  /\ sendQ = <<>>
  /\ \E t \in groupsLeft, k \in 0..3 :
       LET chain == << SchemaDir(schema), TablesDir(schema), TableDir(schema, t) >>
       IN  IF k = 0
             THEN /\ SafelyMkdirOk(chain[3])
                  /\ sendQ' = TableTasks(results, schema, t)
                  /\ groupsLeft' = groupsLeft \ {t}
                  /\ UNCHANGED << pc, ret, retPending, tasks, faults, errLog >>
             ELSE /\ CanFail
                  /\ IF k = 1 THEN UNCHANGED << dirs, made >>
                              ELSE SafelyMkdirOk(chain[k - 1])
                  /\ ProducerMkdirFailed(chain[k], t)
                  /\ UNCHANGED sendQ
  /\ UNCHANGED << schemaIdx, objects, schemasLeft, files, written >>
  /\ UNCHANGED << schema, workers, errChan, errCount >>
  /\ UNCHANGED << fetchVars, inputVars, mkdirVars, queryVars, cliVars >>

\* "tasks <- fileExportTask{...}": blocks while the buffer is full, panics on
\* a closed channel.
Send ==
  /\ pc \in {"TableLoop", "StandaloneLoop"}
  /\ sendQ # <<>>
  /\ IF tasks.closed
       THEN Panic /\ UNCHANGED << tasks, sendQ >>
       ELSE /\ Len(tasks.buf) < tasks.cap
            /\ tasks' = [tasks EXCEPT !.buf = Append(@, Head(sendQ))]
            /\ sendQ' = Tail(sendQ)
            /\ UNCHANGED << pc, ret, retPending >>
  /\ UNCHANGED << schemaIdx, objects, schemasLeft, errLog >>
  /\ UNCHANGED << schema, groupsLeft, workers, errChan, errCount >>
  /\ UNCHANGED << fetchVars, fsVars, inputVars, mkdirVars, queryVars, cliVars >>

\* "close(tasks)" after the producer loop.
Close ==
  /\ pc \in {"TableLoop", "StandaloneLoop"}
  /\ sendQ = <<>>
  /\ groupsLeft = {}
  /\ IF tasks.closed
       THEN Panic /\ UNCHANGED tasks
       ELSE /\ tasks' = [tasks EXCEPT !.closed = TRUE]
            /\ pc' = IF pc = "TableLoop" THEN "TableWait" ELSE "StandaloneWait"
            /\ UNCHANGED << ret, retPending >>
  /\ UNCHANGED << schemaIdx, objects, schemasLeft, errLog >>
  /\ UNCHANGED << schema, groupsLeft, sendQ, workers, errChan, errCount >>
  /\ UNCHANGED << fetchVars, fsVars, inputVars, mkdirVars, queryVars, cliVars >>

\* wg.Wait() of an export call
PoolDrained == workers = 0

\* The value an export call returns after wg.Wait(): nil, or the error taken
\* from errChan.
PoolResult ==
  IF continueOnError /\ errCount > 0 THEN Err("ok", <<>>)
  ELSE IF errChan # <<>> THEN errChan[1]
  ELSE Err("ok", <<>>)

\* exportTableObjects from wg.Wait() to its return, and ExportObjects up to
\* its next call.
TableWait ==
  /\ pc = "TableWait"
  /\ PoolDrained
  /\ IF PoolResult.kind # "ok"
       THEN Return(PoolResult) /\ UNCHANGED poolVars
       ELSE /\ UNCHANGED << ret, retPending >>
            /\ IF Len(Standalone(results, schema)) > 0
                 THEN StartStandalone(schema)
                 ELSE pc' = "SchemaLoop" /\ UNCHANGED poolVars
  /\ UNCHANGED << schemaIdx, objects, schemasLeft, errLog >>
  /\ UNCHANGED << fetchVars, fsVars, inputVars, mkdirVars, queryVars, cliVars >>

\* exportStandaloneObjects: safelyMkdir(schemaDir) before the type loop; on
\* failure "close(tasks)" and "return nil" under continueOnError.
StandaloneSchemaDir ==
  /\ pc = "StandaloneSchemaDir"
  /\ \/ /\ SafelyMkdirOk(SchemaDir(schema))
        /\ pc' = "StandaloneLoop"
        /\ UNCHANGED << ret, retPending, tasks, faults, errLog >>
     \/ /\ CanFail
        /\ faults' = faults + 1
        /\ errLog' = Append(errLog, Err("mkdir", SchemaDir(schema)))
        /\ tasks' = [tasks EXCEPT !.closed = TRUE]
        /\ IF continueOnError
             THEN pc' = "SchemaLoop" /\ UNCHANGED << ret, retPending >>
             ELSE Return(Err("mkdir", SchemaDir(schema)))
        /\ UNCHANGED << dirs, made >>
  /\ UNCHANGED << schemaIdx, objects, schemasLeft, files, written >>
  /\ UNCHANGED << schema, groupsLeft, sendQ, workers, errChan, errCount >>
  /\ UNCHANGED << fetchVars, inputVars, mkdirVars, queryVars, cliVars >>

\* exportStandaloneObjects: one iteration of "for objType, groupObjects :=
\* range typeGroups" up to its first send.
StandaloneNext ==
  /\ pc = "StandaloneLoop"
  /\ sendQ = <<>>
  /\ \E ty \in groupsLeft :
       \/ /\ SafelyMkdirOk(StandaloneDir(schema, ty))
          /\ sendQ' = StandaloneTasks(results, schema, ty)
          /\ groupsLeft' = groupsLeft \ {ty}
          /\ UNCHANGED << pc, ret, retPending, tasks, faults, errLog >>
       \/ /\ CanFail
          /\ ProducerMkdirFailed(StandaloneDir(schema, ty), ty)
          /\ UNCHANGED << dirs, made, sendQ >>
  /\ UNCHANGED << schemaIdx, objects, schemasLeft, files, written >>
  /\ UNCHANGED << schema, workers, errChan, errCount >>
  /\ UNCHANGED << fetchVars, inputVars, mkdirVars, queryVars, cliVars >>

\* exportStandaloneObjects from wg.Wait() to its return.
StandaloneWait ==
  /\ pc = "StandaloneWait"
  /\ PoolDrained
  /\ IF PoolResult.kind # "ok"
       THEN Return(PoolResult)
       ELSE pc' = "SchemaLoop" /\ UNCHANGED << ret, retPending >>
  /\ UNCHANGED << schemaIdx, objects, schemasLeft, errLog >>
  /\ UNCHANGED << fetchVars, fsVars, poolVars, inputVars, mkdirVars, queryVars, cliVars >>

\* --------------------------------------------------- the Exporter: workers
\* A write failed in a worker: count it under continueOnError, else offer it
\* to errChan ("select { case errChan <- err: default: }").
WorkerFailed(e) ==
  /\ faults' = faults + 1
  /\ errLog' = Append(errLog, e)
  /\ IF continueOnError
       THEN errCount' = errCount + 1 /\ UNCHANGED errChan
       ELSE /\ errChan' = IF errChan = <<>> THEN <<e>> ELSE errChan
            /\ UNCHANGED errCount

\* One turn of "for task := range tasks" of a worker: receive a task and
\* writeFile it (safelyMkdir of the parent, then os.WriteFile), or leave the
\* loop when the channel is closed and empty.
Worker ==
  /\ pc # "Panic"
  /\ workers > 0
  /\ IF tasks.buf # <<>>
       THEN LET task == Head(tasks.buf)
            IN  /\ tasks' = [tasks EXCEPT !.buf = Tail(@)]
                /\ UNCHANGED workers
                /\ \/ /\ SafelyMkdirOk(Dir(task.path))
                      /\ files' = WriteFile(files, task.path, task.content)
                      /\ written' = written \cup
                           { [path |-> task.path, content |-> task.content, schema |-> schema] }
                      /\ UNCHANGED << faults, errLog, errChan, errCount >>
                   \/ /\ CanFail
                      /\ WorkerFailed(Err("mkdir", Dir(task.path)))
                      /\ UNCHANGED << dirs, made, files, written >>
                   \/ /\ CanFail
                      /\ SafelyMkdirOk(Dir(task.path))
                      /\ WorkerFailed(Err("write", task.path))
                      /\ UNCHANGED << files, written >>
       ELSE /\ tasks.closed
            /\ workers' = workers - 1
            /\ UNCHANGED << tasks, errChan, errCount, errLog >>
            /\ UNCHANGED fsVars
  /\ UNCHANGED << pc, ret, retPending, schemaIdx, objects, schemasLeft >>
  /\ UNCHANGED << schema, groupsLeft, sendQ >>
  /\ UNCHANGED << fetchVars, inputVars, mkdirVars, queryVars, cliVars >>

\* ------------------------------------------------------- the export run
Next ==
  \/ QueryObjectsSchema
  \/ QueryObjectsReturn
  \/ FetchStart
  \/ \E i \in DOMAIN fetchTask : FetchAcquire(i)
  \/ \E i \in DOMAIN fetchTask : FetchFinish(i)
  \/ FetchReturn
  \/ CheckFailed
  \/ MkOutputDir
  \/ SchemaLoop
  \/ TableNext
  \/ Send
  \/ Close
  \/ TableWait
  \/ StandaloneSchemaDir
  \/ StandaloneNext
  \/ StandaloneWait
  \/ Worker

Spec == Init /\ [][Next]_vars

\* ------------------------------------------ ExportObjects and its context
\* ExportObjects(ctx, objects, continueOnError) on a discovered list, with a
\* caller that can cancel ctx at any moment of the call. ctx goes to
\* FetchObjectsDefinitionsConcurrently only: exportTableObjects and
\* exportStandaloneObjects take no context.
notCtxVars ==
  << continueOnError, concurrency, pc, schemaIdx, objects, results, fetchTask,
     failedObjects, dirs, files, schemasLeft, schema, groupsLeft, sendQ, tasks,
     workers, errChan, errCount, ret, faults, made, written, errLog, retPending,
     dirMutexes, mtxHeld, mk, qry, connections, callErrors, logs, run >>

\* The descriptors of the cancelled runs: a table, an index of it and a
\* sequence of another schema.
CancelInputs ==
  { d \in CatalogRows : d.Name \in {"t1", "i1", "q1"} }

InitCancel ==
  /\ continueOnError \in BOOLEAN
  /\ concurrency \in 1..MaxWorkers
  /\ pc = "Fetch"
  /\ schemaIdx = 1
  /\ objects \in SeqsUpTo(CancelInputs, MaxObjs) \ { <<>> }
  /\ results = <<>>
  /\ fetchTask = <<>>
  /\ failedObjects = <<>>
  /\ dirs = {OutputDir}
  /\ files = << >>
  /\ schemasLeft = {}
  /\ schema = ""
  /\ groupsLeft = {}
  /\ sendQ = <<>>
  /\ tasks = NoChan
  /\ workers = 0
  /\ errChan = <<>>
  /\ errCount = 0
  /\ ret = NoRet
  /\ faults = 0
  /\ made = {}
  /\ written = {}
  /\ errLog = <<>>
  /\ retPending = 0
  /\ CliIdle
  /\ dirMutexes = << >>
  /\ mtxHeld = {}
  /\ mk = << >>
  /\ qry = << >>

\* The caller cancels the context while ExportObjects is running.
Cancel ==
  /\ ~cancelled
  /\ pc \notin {"Done", "Panic"}
  /\ cancelled' = TRUE
  /\ UNCHANGED notCtxVars

NextCancel ==
  \/ Cancel
  \/ FetchStart
  \/ \E i \in DOMAIN fetchTask : FetchAcquire(i)
  \/ \E i \in DOMAIN fetchTask : FetchFinish(i)
  \/ FetchReturn
  \/ CheckFailed
  \/ MkOutputDir
  \/ SchemaLoop
  \/ TableNext
  \/ Send
  \/ Close
  \/ TableWait
  \/ StandaloneSchemaDir
  \/ StandaloneNext
  \/ StandaloneWait
  \/ Worker

SpecCancel == InitCancel /\ [][NextCancel]_vars

\* ------------------------------------------------- safelyMkdir in detail
\* safelyMkdir statement by statement, called once by each of `concurrency`
\* goroutines (the workers through writeFile, the producer directly) on the
\* directories of one table's files.
MkdirTargets ==
  { << "out", "s1" >>,
    << "out", "s1", "tables", "t1" >>,
    << "out", "s1", "tables", "t1", "indexes" >>,
    << "out", "s1", "tables", "t1", "constraints" >> }

NoMutex == [dir |-> <<>>, gen |-> 0]

\* "&sync.Mutex{}": a mutex that no earlier call has seen; the mutexes of a
\* directory are numbered in the order in which the map has held them.
NewMutex(m, d) == [dir |-> d, gen |-> IF d \in DOMAIN m THEN m[d].gen + 1 ELSE 1]

\* sync.Map.Store: the entry is replaced.
LoadOrStore_Store(m, key, new) ==
  [k \in DOMAIN m \cup {key} |-> IF k = key THEN new ELSE m[k]]

\* sync.Map.LoadOrStore: the map after the call; the entry is inserted only
\* when the key is absent, and the caller gets the entry of the map.
LoadOrStore(m, key, new) ==
  IF key \in DOMAIN m THEN m
  ELSE [k \in DOMAIN m \cup {key} |-> IF k = key THEN new ELSE m[k]]

notMkdirVars ==
  << continueOnError, concurrency, pc, schemaIdx, objects, results, fetchTask,
     failedObjects, files, schemasLeft, schema, groupsLeft, sendQ, tasks, workers,
     errChan, errCount, ret, made, written, errLog, retPending, qry,
     cancelled, connections, callErrors, logs, run >>

InitMkdir ==
  /\ continueOnError = FALSE
  /\ concurrency \in 1..MaxWorkers
  /\ pc = "Mkdir"
  /\ schemaIdx = 1
  /\ objects = <<>>
  /\ results = <<>>
  /\ fetchTask = <<>>
  /\ failedObjects = <<>>
  /\ dirs \in { {}, {OutputDir} }
  /\ files = << >>
  /\ schemasLeft = {}
  /\ schema = ""
  /\ groupsLeft = {}
  /\ sendQ = <<>>
  /\ tasks = NoChan
  /\ workers = 0
  /\ errChan = <<>>
  /\ errCount = 0
  /\ ret = NoRet
  /\ faults = 0
  /\ made = {}
  /\ written = {}
  /\ errLog = <<>>
  /\ retPending = 0
  /\ CliIdle
  /\ dirMutexes = << >>
  /\ mtxHeld = {}
  /\ mk = [g \in 1..concurrency |->
             [pc |-> "idle", dir |-> <<>>, mtx |-> NoMutex, k |-> 0, err |-> "nil"]]
  /\ qry = << >>

\* "mutex, _ := e.dirMutexes.LoadOrStore(key, &sync.Mutex{})"
MkLoadOrStore(g) ==
  /\ mk[g].pc = "idle"
  /\ \E d \in MkdirTargets :
       LET m == LoadOrStore(dirMutexes, d, NewMutex(dirMutexes, d))
       IN  /\ dirMutexes' = m
           /\ mk' = [mk EXCEPT ![g] = [@ EXCEPT !.pc = "lock", !.dir = d, !.mtx = m[d]]]
  /\ UNCHANGED << mtxHeld, dirs, faults, notMkdirVars >>

\* "mtx.Lock()"
MkLock(g) ==
  /\ mk[g].pc = "lock"
  /\ mk[g].mtx \notin mtxHeld
  /\ mtxHeld' = mtxHeld \cup { mk[g].mtx }
  /\ mk' = [mk EXCEPT ![g].pc = "stat"]
  /\ UNCHANGED << dirMutexes, dirs, faults, notMkdirVars >>

\* "if _, err := os.Stat(dir); os.IsNotExist(err) {...} else if err != nil {return}"
MkStat(g) ==
  /\ mk[g].pc = "stat"
  /\ \/ /\ mk' = [mk EXCEPT ![g].pc = IF mk[g].dir \in dirs THEN "unlock" ELSE "mkdirall"]
        /\ UNCHANGED faults
     \/ /\ CanFail
        /\ faults' = faults + 1
        /\ mk' = [mk EXCEPT ![g] = [@ EXCEPT !.pc = "unlock", !.err = "EOTHER"]]
  /\ UNCHANGED << dirMutexes, mtxHeld, dirs, notMkdirVars >>

\* The components of dir that do not exist.
Missing(dir) == { k \in 1..Len(dir) : SubSeq(dir, 1, k) \notin dirs }

\* os.MkdirAll(dir, 0755) up to its first Mkdir: it stats the path and its
\* parents upwards to the first one that exists.
MkMkdirAllEnter(g) ==
  /\ mk[g].pc = "mkdirall"
  /\ IF Missing(mk[g].dir) = {}
       THEN mk' = [mk EXCEPT ![g].pc = "unlock"]
       ELSE mk' = [mk EXCEPT ![g] = [@ EXCEPT !.pc = "mkdir",
                     !.k = CHOOSE k \in Missing(mk[g].dir) :
                             \A j \in Missing(mk[g].dir) : k <= j]]
  /\ UNCHANGED << dirMutexes, mtxHeld, dirs, faults, notMkdirVars >>

\* os.MkdirAll: one Mkdir on the way down.  A component that exists by now is
\* accepted (Mkdir fails with EEXIST and Lstat finds a directory); a component
\* whose parent is missing fails with ENOENT.
MkMkdirStep(g) ==
  /\ mk[g].pc = "mkdir"
  /\ LET c == mk[g]
         p == SubSeq(c.dir, 1, c.k)
         next == IF c.k = Len(c.dir) THEN [c EXCEPT !.pc = "unlock"]
                 ELSE [c EXCEPT !.k = c.k + 1]
     IN  IF p \in dirs
           THEN mk' = [mk EXCEPT ![g] = next] /\ UNCHANGED dirs
           ELSE IF c.k > 1 /\ SubSeq(c.dir, 1, c.k - 1) \notin dirs
             THEN mk' = [mk EXCEPT ![g] = [c EXCEPT !.pc = "unlock", !.err = "ENOENT"]]
                  /\ UNCHANGED dirs
             ELSE mk' = [mk EXCEPT ![g] = next] /\ dirs' = dirs \cup {p}
  /\ UNCHANGED << dirMutexes, mtxHeld, faults, notMkdirVars >>

\* "defer mtx.Unlock()" and the return
MkUnlock(g) ==
  /\ mk[g].pc = "unlock"
  /\ mtxHeld' = mtxHeld \ { mk[g].mtx }
  /\ mk' = [mk EXCEPT ![g].pc = "done"]
  /\ UNCHANGED << dirMutexes, dirs, faults, notMkdirVars >>

\* The goroutine goes on to its next call (the worker's "for task := range
\* tasks", the producer's next directory).
MkAgain(g) ==
  /\ mk[g].pc = "done"
  /\ mk' = [mk EXCEPT ![g] =
              [pc |-> "idle", dir |-> <<>>, mtx |-> NoMutex, k |-> 0, err |-> "nil"]]
  /\ UNCHANGED << dirMutexes, mtxHeld, dirs, faults, notMkdirVars >>

NextMkdir ==
  \/ \E g \in DOMAIN mk : MkLoadOrStore(g)
  \/ \E g \in DOMAIN mk : MkLock(g)
  \/ \E g \in DOMAIN mk : MkStat(g)
  \/ \E g \in DOMAIN mk : MkMkdirAllEnter(g)
  \/ \E g \in DOMAIN mk : MkMkdirStep(g)
  \/ \E g \in DOMAIN mk : MkUnlock(g)
  \/ \E g \in DOMAIN mk : MkAgain(g)

SpecMkdir == InitMkdir /\ [][NextMkdir]_vars

\* ------------------------------------------------- QueryObjects in detail
\* QueryObjects query by query, for a request of any type set, schema list
\* and name pattern, as runExport calls it.

\* Longest schema list of a request.
MaxSchemas == 2

\* The schemas of the database; the request can also name "nx".
ExistingSchemas == {"public", "s1", "s2"}
RequestSchemaNames == {"s1", "s2", "nx"}
RequestTypeNames == {"table", "view", "function", "publication"}

\* The rows of the catalog.  Database-level objects carry the placeholder
\* schema 'postgres' (queryPublications).
QueryCatalog ==
  { DBObject("table",       "s1",       "t1", "", ""),
    DBObject("view",        "s1",       "v1", "", ""),
    DBObject("function",    "s1",       "f1", "", ""),
    DBObject("table",       "s2",       "t1", "", ""),
    DBObject("publication", "postgres", "p1", "", ""),
    DBObject("subscription", "postgres", "u1", "", "") }

\* Name patterns: ".*" (what "ALL" becomes), one that matches the name t1
\* only, and one that does not compile.
NamePatterns == {".*", "t1", "("}
\* A compiler that accepts every pattern.
RegexCompiles_Always(p) == TRUE

RegexCompiles(p) == p # "("
MatchString(p, name) == p = ".*" \/ p = name

\* "if len(opts.Schemas) == 0 { opts.Schemas = []string{"public"} }"
EffectiveSchemas(schemas) == IF Len(schemas) = 0 THEN << "public" >> ELSE schemas

\* An existence check that finds every schema.
SchemaExists_Always(s) == TRUE

\* schemaExists
SchemaExists(s) == s \in ExistingSchemas

\* types.ContainsAny: an empty slice stands for all types.
ContainsAny(slice, elements) == slice = {} \/ slice \cap elements # {}

\* Database-level queries in which the publications are queried twice.
DatabaseQueries_Repeated == << {"publication"}, {"publication"}, {"subscription"} >>

\* The database-level queries of QueryObjects, in order.
DatabaseQueries == << {"publication"}, {"subscription"} >>

NoRepeat(r) == \A i, j \in 1..Len(r) : i # j => r[i] # r[j]

\* The row lists one catalog query can return: rows of the queried kinds, in
\* any order, at most n; pg_proc holds one row for every overload of a
\* function, so only a function name can come more than once.
QueryResults(rows, tys, n) ==
  { r \in SeqsUpTo({ d \in rows : d.Type \in tys }, n) : "function" \in tys \/ NoRepeat(r) }

\* "if pattern.MatchString(obj.Name) { objects = append(objects, obj) }"
FilterByName(rows, p) == SelectSeq(rows, LAMBDA d : MatchString(p, d.Name))

InitQuery ==
  /\ continueOnError \in BOOLEAN
  /\ concurrency = 1
  /\ pc = "QStart"
  /\ schemaIdx = 1
  /\ objects = <<>>
  /\ results = <<>>
  /\ fetchTask = <<>>
  /\ failedObjects = <<>>
  /\ dirs = {OutputDir}
  /\ files = << >>
  /\ schemasLeft = {}
  /\ schema = ""
  /\ groupsLeft = {}
  /\ sendQ = <<>>
  /\ tasks = NoChan
  /\ workers = 0
  /\ errChan = <<>>
  /\ errCount = 0
  /\ ret = NoRet
  /\ faults = 0
  /\ made = {}
  /\ written = {}
  /\ errLog = <<>>
  /\ retPending = 0
  /\ CliIdle
  /\ dirMutexes = << >>
  /\ mtxHeld = {}
  /\ mk = << >>
  /\ \E tys \in SUBSET RequestTypeNames, ss \in SeqsUpTo(RequestSchemaNames, MaxSchemas),
        p \in NamePatterns :
       qry = [types |-> tys, schemas |-> ss, pattern |-> p, k |-> 1, issued |-> 0]

notQueryVars ==
  << continueOnError, concurrency, results, fetchTask, failedObjects, dirs, files,
     schemasLeft, schema, groupsLeft, sendQ, tasks, workers, errChan, errCount,
     made, written, errLog, dirMutexes, mtxHeld, mk,
     cancelled, connections, callErrors, logs, run >>

\* QueryObjects returns (nil, err) and runExport returns "Failed to query
\* objects".
QueryFailed(e) ==
  /\ objects' = <<>>
  /\ Return(e)

\* The default schema and regexp.Compile.
QueryStart ==
  /\ pc = "QStart"
  /\ qry' = [qry EXCEPT !.schemas = EffectiveSchemas(qry.schemas)]
  /\ IF RegexCompiles(qry.pattern)
       THEN pc' = "QExists" /\ UNCHANGED << objects, ret, retPending >>
       ELSE QueryFailed(Err("regex", << qry.pattern >>))
  /\ UNCHANGED << schemaIdx, faults, notQueryVars >>

\* One iteration of "for _, schema := range opts.Schemas" that verifies the
\* schemas.
QuerySchemaExists ==
  /\ pc = "QExists"
  /\ LET s == qry.schemas[schemaIdx]
     IN  \/ /\ CanFail
            /\ faults' = faults + 1
            /\ QueryFailed(Err("exists_check", << s >>))
            /\ UNCHANGED schemaIdx
         \/ /\ UNCHANGED faults
            /\ IF ~SchemaExists(s)
                 THEN QueryFailed(Err("schema_not_found", << s >>)) /\ UNCHANGED schemaIdx
                 ELSE /\ UNCHANGED << objects, ret, retPending >>
                      /\ IF schemaIdx < Len(qry.schemas)
                           THEN schemaIdx' = schemaIdx + 1 /\ pc' = pc
                           ELSE schemaIdx' = 1 /\ pc' = "QSchema"
  /\ UNCHANGED << qry, notQueryVars >>

\* One "if types.ContainsAny(opts.Types, ...) {...}" block of the schema loop.
QueryType ==
  /\ pc = "QSchema"
  /\ LET s    == qry.schemas[schemaIdx]
         tys  == SchemaQueries[qry.k]
         last == qry.k = Len(SchemaQueries)
         step == [qry EXCEPT !.k = IF last THEN 1 ELSE qry.k + 1]
         on   == /\ schemaIdx' = (IF last THEN schemaIdx + 1 ELSE schemaIdx)
                 /\ pc' = (IF last /\ schemaIdx = Len(qry.schemas) THEN "QDatabase" ELSE pc)
                 /\ UNCHANGED << ret, retPending >>
     IN  IF ContainsAny(qry.types, tys)
           THEN \/ /\ CanFail
                   /\ faults' = faults + 1
                   /\ qry' = [qry EXCEPT !.issued = qry.issued + 1]
                   /\ QueryFailed(Err("query", << s >>))
                   /\ UNCHANGED schemaIdx
                \/ /\ \E rows \in QueryResults({ d \in QueryCatalog : d.Schema = s }, tys,
                                               MaxObjs - Len(objects)) :
                        objects' = objects \o FilterByName(rows, qry.pattern)
                   /\ qry' = [step EXCEPT !.issued = qry.issued + 1]
                   /\ on
                   /\ UNCHANGED faults
           ELSE /\ qry' = step
                /\ on
                /\ UNCHANGED << objects, faults >>
  /\ UNCHANGED notQueryVars

\* The publication and subscription blocks after the schema loop.
QueryDatabaseLevel ==
  /\ pc = "QDatabase"
  /\ qry.k <= Len(DatabaseQueries)
  /\ LET tys == DatabaseQueries[qry.k]
     IN  IF ContainsAny(qry.types, tys)
           THEN \/ /\ CanFail
                   /\ faults' = faults + 1
                   /\ qry' = [qry EXCEPT !.issued = qry.issued + 1]
                   /\ QueryFailed(Err("query", << "postgres" >>))
                \/ /\ \E rows \in QueryResults(QueryCatalog, tys, MaxObjs - Len(objects)) :
                        objects' = objects \o FilterByName(rows, qry.pattern)
                   /\ qry' = [qry EXCEPT !.k = qry.k + 1, !.issued = qry.issued + 1]
                   /\ UNCHANGED << pc, ret, retPending, faults >>
           ELSE /\ qry' = [qry EXCEPT !.k = qry.k + 1]
                /\ UNCHANGED << pc, ret, retPending, objects, faults >>
  /\ UNCHANGED << schemaIdx, notQueryVars >>

\* "return objects, nil"; runExport ends when the list is empty and goes on to
\* SaveObjects otherwise.
QueryReturn ==
  /\ pc = "QDatabase"
  /\ qry.k > Len(DatabaseQueries)
  /\ IF Len(objects) = 0
       THEN Return(Err("no_objects", <<>>))
       ELSE pc' = "Fetch" /\ UNCHANGED << ret, retPending >>
  /\ UNCHANGED << schemaIdx, objects, faults, qry, notQueryVars >>

NextQuery ==
  \/ QueryStart
  \/ QuerySchemaExists
  \/ QueryType
  \/ QueryDatabaseLevel
  \/ QueryReturn

SpecQuery == InitQuery /\ [][NextQuery]_vars

\* ----------------------------------- the definition fetch on any input list
\* FetchObjectsDefinitionsConcurrently and the check of ExportObjects that
\* follows it, for a descriptor list given by the caller of ExportObjects: the
\* list can hold descriptors with a definition, descriptors more than once and a
\* type outside the ObjectType enumeration.

\* New: "concurrency: 50"
NewConcurrency == 50

\* A WithConcurrency that takes any count, zero and negative ones included.
WithConcurrency_Any(cur, n) == n

\* WithConcurrency
WithConcurrency(cur, n) == IF n > 0 THEN n ELSE cur

\* types.IsValidType
IsValidType(t) == t \in FetchableTypes \cup {"constraint"}

FetchInputs ==
  { DBObject("table",      "s1", "t1", "",   ""),
    DBObject("constraint", "s1", "c1", "t1", "CHECK (c1)"),
    DBObject("view",       "s2", "v1", "",   ""),
    DBObject("invalid",    "s1", "x1", "",   "") }

\* The budgets the fetch is called with: that of an Exporter, set by New and
\* WithConcurrency, and the non-positive ones a direct caller can pass.
FetchBudgets ==
  { WithConcurrency(NewConcurrency, n) : n \in -1..MaxWorkers } \cup {-1, 0}

InitFetch ==
  /\ continueOnError \in BOOLEAN
  /\ concurrency \in FetchBudgets
  /\ pc = "Fetch"
  /\ schemaIdx = 1
  /\ objects \in SeqsUpTo(FetchInputs, MaxObjs) \ { <<>> }
  /\ results = <<>>
  /\ fetchTask = <<>>
  /\ failedObjects = <<>>
  /\ dirs = {OutputDir}
  /\ files = << >>
  /\ schemasLeft = {}
  /\ schema = ""
  /\ groupsLeft = {}
  /\ sendQ = <<>>
  /\ tasks = NoChan
  /\ workers = 0
  /\ errChan = <<>>
  /\ errCount = 0
  /\ ret = NoRet
  /\ faults = 0
  /\ made = {}
  /\ written = {}
  /\ errLog = <<>>
  /\ retPending = 0
  /\ CliIdle
  /\ dirMutexes = << >>
  /\ mtxHeld = {}
  /\ mk = << >>
  /\ qry = << >>

NextFetch ==
  \/ FetchStart
  \/ \E i \in DOMAIN fetchTask : FetchAcquire(i)
  \/ \E i \in DOMAIN fetchTask : FetchFinish(i)
  \/ FetchReturn
  \/ CheckFailed

SpecFetch == InitFetch /\ [][NextFetch]_vars

\* ------------------------------------------------- the connection store
\* Config of internal/config: AddConnection, SetDefaultConnection and
\* DeleteConnection called in any order on one Config that starts empty, as
\* the commands and the tests call them. A Connection is [Name, URL,
\* IsDefault]; the URL is kept as the parameters of its connection string.
MaxConns == 2

ConnNames == {"", "a", "b", "c"}

\* The url arguments: a URL, a connection string, a URL that pq.ParseURL
\* rejects, and a URL of each kind that carries the password "pw".
ConnURLs ==
  { "postgres://u@h/db", "dbname=db", "postgres://h:x/db",
    "postgres://u:pw@h/db", "postgres://u:pw@h:x/db" }

\* "strings.HasPrefix(url, "postgres://")"
IsURLFormat(url) == url # "dbname=db"

\* pq.ParseURL: the connection string of a URL, as its parameters; FALSE is
\* the error (a port that is not a number).
ParseURL(url) ==
  IF url = "postgres://u@h/db"
    THEN [ok |-> TRUE,  params |-> [k \in {"user", "host", "dbname"} |->
                                     CASE k = "user" -> "u" [] k = "host" -> "h" [] OTHER -> "db"]]
  ELSE IF url = "postgres://u:pw@h/db"
    THEN [ok |-> TRUE,  params |-> [k \in {"user", "password", "host", "dbname"} |->
                                     CASE k = "user" -> "u" [] k = "password" -> "pw"
                                       [] k = "host" -> "h" [] OTHER -> "db"]]
    ELSE [ok |-> FALSE, params |-> << >>]

\* "for _, param := range strings.Split(url, " ")": the parameters of a
\* connection string.
SplitParams(url) ==
  IF url = "dbname=db" THEN [k \in {"dbname"} |-> "db"] ELSE << >>

\* AddConnection: "params["hostaddr"] = host" or "params["host"] = "localhost"",
\* and sslmode "disable" unless given.
EnsureParams(params) ==
  LET withHost ==
        IF "host" \in DOMAIN params
          THEN [k \in DOMAIN params \cup {"hostaddr"} |->
                  IF k = "hostaddr" THEN params["host"] ELSE params[k]]
          ELSE [k \in DOMAIN params \cup {"host"} |->
                  IF k = "host" THEN "localhost" ELSE params[k]]
  IN [k \in DOMAIN withHost \cup {"sslmode"} |->
        IF k \in DOMAIN withHost THEN withHost[k] ELSE "disable"]

Connection(name, url, isDefault) == [Name |-> name, URL |-> url, IsDefault |-> isDefault]

\* "for i, conn := range c.Connections { if conn.Name == name { ..." : the
\* index of the first connection of that name, 0 when the loop ends without one.
IndexOf(conns, name) ==
  IF \E i \in 1..Len(conns) : conns[i].Name = name
    THEN CHOOSE i \in 1..Len(conns) :
           /\ conns[i].Name = name
           /\ \A j \in 1..(i - 1) : conns[j].Name # name
    ELSE 0

\* A lookup that finds nothing.
GetConnection_Nil(conns, name) == 0

\* GetConnection: the first connection of that name, as its index; 0 is nil.
GetConnection(conns, name) == IndexOf(conns, name)

\* A clearing of the default flags that clears nothing.
ClearDefaults_Keep(conns) == conns

\* AddConnection: "for i := range c.Connections { c.Connections[i].IsDefault = false }"
ClearDefaults(conns) == [i \in 1..Len(conns) |-> [conns[i] EXCEPT !.IsDefault = FALSE]]

\* SetDefaultConnection: the loop that sets the flag of every connection to
\* "its name is the given one".
MarkDefault(conns, name) ==
  [i \in 1..Len(conns) |-> [conns[i] EXCEPT !.IsDefault = (conns[i].Name = name)]]

\* "append(c.Connections[:i], c.Connections[i+1:]...)"
RemoveAt(conns, i) == SubSeq(conns, 1, i - 1) \o SubSeq(conns, i + 1, Len(conns))

\* DeleteConnection: "nextIdx := (i + 1) % len(c.Connections)", on indexes
\* from 1.
NextIdx(conns, i) == (i % Len(conns)) + 1

notConfigVars ==
  << continueOnError, concurrency, pc, schemaIdx, objects, results, fetchTask,
     failedObjects, dirs, files, schemasLeft, schema, groupsLeft, sendQ, tasks,
     workers, errChan, errCount, ret, faults, made, written, errLog, retPending,
     dirMutexes, mtxHeld, mk, qry, cancelled, run >>

InitConfig ==
  /\ continueOnError = FALSE
  /\ concurrency = 1
  /\ pc = "Config"
  /\ schemaIdx = 1
  /\ objects = <<>>
  /\ results = <<>>
  /\ fetchTask = <<>>
  /\ failedObjects = <<>>
  /\ dirs = {}
  /\ files = << >>
  /\ schemasLeft = {}
  /\ schema = ""
  /\ groupsLeft = {}
  /\ sendQ = <<>>
  /\ tasks = NoChan
  /\ workers = 0
  /\ errChan = <<>>
  /\ errCount = 0
  /\ ret = NoRet
  /\ faults = 0
  /\ made = {}
  /\ written = {}
  /\ errLog = <<>>
  /\ retPending = 0
  /\ CliIdle
  /\ dirMutexes = << >>
  /\ mtxHeld = {}
  /\ mk = << >>
  /\ qry = << >>

\* A log message or the text of a returned error ("error"): the format
\* string cut at its verbs, with the arguments in their places.
Log(level, text) == [level |-> level, text |-> text]

\* The call returns an error and leaves c.Connections as conns; out is what
\* it has logged, the text of the error included.
ConfigError(e, conns, out) ==
  /\ callErrors' = callErrors \cup {e}
  /\ connections' = conns
  /\ logs' = out

\* "return c.Save()": the file is written, or os.WriteFile fails and the call
\* returns its error with c.Connections already changed.
Save(conns, out) ==
  /\ connections' = conns
  /\ \/ /\ callErrors' = callErrors
        /\ logs' = out \cup {Log("debug", <<"Config saved to ", "config.json">>)}
     \/ /\ callErrors' = callErrors \cup {"save"}
        /\ logs' = out \cup {Log("error", <<"Failed to write config to ", "config.json">>)}

\* "for k, v := range params { if k != "password" { log.Debug(...) } ... }"
ParamLogs(params) ==
  { Log("debug", <<"Connection parameter ", k, "=", params[k]>>) :
      k \in DOMAIN params \ {"password"} }

\* Config.AddConnection after the messages in before.
AddConnectionCall(name, url, makeDefault, before) ==
  IF name = ""
    THEN ConfigError("empty_name", connections,
                     before \cup {Log("error", <<"Connection name cannot be empty">>)})
  ELSE IF GetConnection(connections, name) # 0
    THEN ConfigError("duplicate", connections,
                     before \cup {Log("error", <<"Connection with name '", name, "' already exists">>)})
  ELSE IF IsURLFormat(url) /\ ~ParseURL(url).ok
    THEN ConfigError("invalid_url", connections,
                     before \cup { Log("debug", <<"Converting URL to connection string">>),
                                   Log("error", <<"Invalid connection URL: ", url>>) })
  ELSE
    LET params == EnsureParams(IF IsURLFormat(url) THEN ParseURL(url).params
                               ELSE SplitParams(url))
        md     == makeDefault \/ Len(connections) = 0
        others == IF md THEN ClearDefaults(connections) ELSE connections
        out    == before
                    \cup (IF IsURLFormat(url)
                            THEN {Log("debug", <<"Converting URL to connection string">>)}
                            ELSE {})
                    \cup ParamLogs(params)
                    \cup (IF Len(connections) = 0
                            THEN {Log("debug", <<"First connection, automatically making it default">>)}
                            ELSE {})
                    \cup {Log("info", <<"Added connection '", name, "'",
                                        IF md THEN " (default)" ELSE "">>)}
    IN Save(Append(others, Connection(name, params, md)), out)

\* Config.AddConnection called on its own, as the tests call it.
AddConnection(name, url, makeDefault) ==
  /\ pc = "Config"
  /\ Len(connections) < MaxConns
  /\ AddConnectionCall(name, url, makeDefault, {})
  /\ UNCHANGED notConfigVars

\* runCreateConnection: the debug message with the flags, then AddConnection
\* on the loaded Config.
RunCreateConnection(name, url, makeDefault) ==
  /\ pc = "Config"
  /\ Len(connections) < MaxConns
  /\ AddConnectionCall(name, url, makeDefault,
       {Log("debug", <<"Creating connection ", name, " with URL ", url, " (default: ",
                       IF makeDefault THEN "true" ELSE "false", ")">>)})
  /\ UNCHANGED notConfigVars

SetDefaultConnection(name) ==
  /\ pc = "Config"
  /\ IF \E i \in 1..Len(connections) : connections[i].Name = name
       THEN Save(MarkDefault(connections, name),
                 {Log("info", <<"Set '", name, "' as the default connection">>)})
       ELSE ConfigError("not_found", MarkDefault(connections, name),
                        {Log("error", <<"Connection not found: ", name>>)})
  /\ UNCHANGED notConfigVars

DeleteConnection(name) ==
  /\ pc = "Config"
  /\ LET i == IndexOf(connections, name) IN
     IF i = 0
       THEN ConfigError("not_found", connections,
                        {Log("error", <<"Connection not found: ", name>>)})
       ELSE LET promote  == connections[i].IsDefault /\ Len(connections) > 1
                promoted ==
                  IF promote
                    THEN [connections EXCEPT ![NextIdx(connections, i)].IsDefault = TRUE]
                    ELSE connections
                out ==
                  (IF promote
                     THEN {Log("info", <<"Setting '", connections[NextIdx(connections, i)].Name,
                                         "' as the new default connection">>)}
                     ELSE {})
                  \cup {Log("info", <<"Deleted connection '", name, "'">>)}
            IN Save(RemoveAt(promoted, i), out)
  /\ UNCHANGED notConfigVars

NextConfig ==
  \/ \E name \in ConnNames, url \in ConnURLs, makeDefault \in BOOLEAN :
       AddConnection(name, url, makeDefault)
  \/ \E name \in ConnNames, url \in ConnURLs, makeDefault \in BOOLEAN :
       RunCreateConnection(name, url, makeDefault)
  \/ \E name \in ConnNames : SetDefaultConnection(name)
  \/ \E name \in ConnNames : DeleteConnection(name)

SpecConfig == InitConfig /\ [][NextConfig]_vars

\* -------------------------------------------------------------- runExport
\* The export command from its flags to the call of SaveObjects: validation of
\* --on-error, the output directory, LoadConfig, the choice of the connection,
\* NewFetcher, the parsing of --types and discovery.

\* The values of --on-error, of --connection and of the validity of --types.
OnErrorOptions == {"fail", "warn", "ignore"}

RunConnNames == {"", "a", "z"}

\* "if onErrorOption != "fail" && onErrorOption != "warn" { return error }"
ValidOnError_Any(v) == TRUE

ValidOnError(v) == v = "fail" \/ v = "warn"

\* "configDir := filepath.Join(homeDir, ".pgmeta")"
ConfigDir == << "home", ".pgmeta" >>

\* The contents config.json can have: what the calls on a Config save, that is
\* connections with different non-empty names of which at most one is the
\* default (none after a SetDefaultConnection of an unknown name was followed
\* by a saved call), and the empty list of a missing file.
StoredURL == EnsureParams(SplitParams("dbname=db"))

LoadableConfigs ==
  { conns \in SeqsUpTo({ Connection(n, StoredURL, f) : n \in ConnNames \ {""}, f \in BOOLEAN },
                       MaxConns) :
      /\ \A i, j \in 1..Len(conns) : conns[i].Name = conns[j].Name => i = j
      /\ Cardinality({ i \in 1..Len(conns) : conns[i].IsDefault }) <= 1 }

\* A default lookup that takes the first connection, whatever is stored.
GetDefaultConnection_First(conns) == IF Len(conns) > 0 THEN 1 ELSE 0

\* GetDefaultConnection: the first connection marked default, else the only
\* connection, else nil; as an index, 0 is nil.
GetDefaultConnection(conns) ==
  IF \E i \in 1..Len(conns) : conns[i].IsDefault
    THEN CHOOSE i \in 1..Len(conns) :
           /\ conns[i].IsDefault
           /\ \A j \in 1..(i - 1) : ~conns[j].IsDefault
  ELSE IF Len(conns) = 1 THEN 1
  ELSE 0

notRunVars ==
  << concurrency, schemaIdx, results, fetchTask, failedObjects, files,
     schemasLeft, schema, groupsLeft, sendQ, tasks, workers, errChan, errCount,
     faults, written, errLog, retPending, dirMutexes, mtxHeld, mk, qry,
     cancelled, callErrors, logs, continueOnError, objects >>

InitRun ==
  /\ run \in [onError : OnErrorOptions, connName : RunConnNames, typesOk : BOOLEAN,
              loaded : {FALSE}, conn : {""}, dbOpened : {FALSE}]
  /\ continueOnError = (run.onError = "warn")
  /\ concurrency = NewConcurrency
  /\ pc = "RunValidate"
  /\ schemaIdx = 1
  /\ objects = <<>>
  /\ results = <<>>
  /\ fetchTask = <<>>
  /\ failedObjects = <<>>
  /\ dirs \in SUBSET {OutputDir, << "home" >>, ConfigDir}
  /\ ConfigDir \in dirs => << "home" >> \in dirs
  /\ files = << >>
  /\ schemasLeft = {}
  /\ schema = ""
  /\ groupsLeft = {}
  /\ sendQ = <<>>
  /\ tasks = NoChan
  /\ workers = 0
  /\ errChan = <<>>
  /\ errCount = 0
  /\ ret = NoRet
  /\ faults = 0
  /\ made = {}
  /\ written = {}
  /\ errLog = <<>>
  /\ retPending = 0
  /\ cancelled = FALSE
  /\ connections = <<>>
  /\ callErrors = {}
  /\ logs = {}
  /\ dirMutexes = << >>
  /\ mtxHeld = {}
  /\ mk = << >>
  /\ qry = << >>

\* runExport returns an error.
RunFailed(e) ==
  /\ pc' = "Done"
  /\ ret' = Err(e, <<>>)

\* "if onErrorOption != "fail" && onErrorOption != "warn""
RunValidate ==
  /\ pc = "RunValidate"
  /\ IF ValidOnError(run.onError)
       THEN pc' = "RunMkdir" /\ ret' = ret
       ELSE RunFailed("invalid_on_error")
  /\ UNCHANGED << dirs, made, connections, run >>
  /\ UNCHANGED notRunVars

\* "os.MkdirAll(outputDir, 0755)"
RunMkdir ==
  /\ pc = "RunMkdir"
  /\ \/ /\ dirs' = MkdirAll(dirs, OutputDir)
        /\ made' = made \cup (MkdirAll(dirs, OutputDir) \ dirs)
        /\ pc' = "RunLoadConfig"
        /\ ret' = ret
     \/ /\ RunFailed("mkdir_output")
        /\ UNCHANGED << dirs, made >>
  /\ UNCHANGED << connections, run >>
  /\ UNCHANGED notRunVars

\* config.LoadConfig: the config directory is created, and the Config is empty
\* when there is no file, else what the file holds.
RunLoadConfig ==
  /\ pc = "RunLoadConfig"
  /\ \/ /\ dirs' = MkdirAll(dirs, ConfigDir)
        /\ made' = made \cup (MkdirAll(dirs, ConfigDir) \ dirs)
        /\ \/ /\ \E conns \in LoadableConfigs : connections' = conns
              /\ run' = [run EXCEPT !.loaded = TRUE]
              /\ pc' = "RunResolve"
              /\ ret' = ret
           \/ /\ RunFailed("load_config")
              /\ UNCHANGED << connections, run >>
     \/ /\ RunFailed("load_config")
        /\ UNCHANGED << dirs, made, connections, run >>
  /\ UNCHANGED notRunVars

\* The choice of the connection: "if connName != "" { cfg.GetConnection } else
\* { cfg.GetDefaultConnection }".
RunResolve ==
  /\ pc = "RunResolve"
  /\ LET i == IF run.connName # "" THEN GetConnection(connections, run.connName)
                                   ELSE GetDefaultConnection(connections)
     IN IF i = 0
          THEN /\ RunFailed(IF run.connName # "" THEN "connection_not_found"
                                                 ELSE "no_default_connection")
               /\ run' = run
          ELSE /\ run' = [run EXCEPT !.conn = connections[i].Name]
               /\ pc' = "RunNewFetcher"
               /\ ret' = ret
  /\ UNCHANGED << dirs, made, connections >>
  /\ UNCHANGED notRunVars

\* metadata.NewFetcher(connectionURL) opens the database, and the parsing of
\* --types follows.
RunNewFetcher ==
  /\ pc = "RunNewFetcher"
  /\ \/ /\ run' = [run EXCEPT !.dbOpened = TRUE]
        /\ IF run.typesOk
             THEN pc' = "QueryObjects" /\ ret' = ret
             ELSE RunFailed("invalid_type")
     \/ /\ RunFailed("new_fetcher")
        /\ run' = run
  /\ UNCHANGED << dirs, made, connections >>
  /\ UNCHANGED notRunVars

NextRun ==
  \/ RunValidate
  \/ RunMkdir
  \/ RunLoadConfig
  \/ RunResolve
  \/ RunNewFetcher
  \/ QueryObjectsSchema
  \/ QueryObjectsReturn

SpecRun == InitRun /\ [][NextRun]_vars

\* -------------------------------------------------- the same export twice
\* ExportObjects on one descriptor list, and again on the same list by a new
\* Exporter over the files and directories the first call left: the export
\* command run twice with the same request against an unchanged database.

\* The descriptors of the list: a function, a table and an index of the
\* table. Discovery returns a function once for every overload, so only the
\* function can be in the list more than once.
RerunInputs ==
  { DBObject("function", "s1", "f1", "",   ""),
    DBObject("table",    "s1", "t1", "",   ""),
    DBObject("index",    "s1", "i1", "t1", "") }

RerunLists ==
  { l \in SeqsUpTo(RerunInputs, MaxObjs) \ { <<>> } :
      \A i, j \in 1..Len(l) : (i # j /\ l[i] = l[j]) => l[i].Type = "function" }

notRerunVars ==
  << continueOnError, concurrency, objects, schemaIdx, dirs, files, dirMutexes,
     mtxHeld, mk, qry, cancelled, connections, callErrors, logs >>

InitRerun ==
  /\ continueOnError \in BOOLEAN
  /\ concurrency \in 1..MaxWorkers
  /\ pc = "Fetch"
  /\ schemaIdx = 1
  /\ objects \in RerunLists
  /\ results = <<>>
  /\ fetchTask = <<>>
  /\ failedObjects = <<>>
  /\ dirs = {OutputDir}
  /\ files = << >>
  /\ schemasLeft = {}
  /\ schema = ""
  /\ groupsLeft = {}
  /\ sendQ = <<>>
  /\ tasks = NoChan
  /\ workers = 0
  /\ errChan = <<>>
  /\ errCount = 0
  /\ ret = NoRet
  /\ faults = 0
  /\ made = {}
  /\ written = {}
  /\ errLog = <<>>
  /\ retPending = 0
  /\ cancelled = FALSE
  /\ connections = <<>>
  /\ callErrors = {}
  /\ logs = {}
  /\ run = [no |-> 1, first |-> << >>, clean |-> FALSE]
  /\ dirMutexes = << >>
  /\ mtxHeld = {}
  /\ mk = << >>
  /\ qry = << >>

\* The first call has returned and its goroutines have ended; the second call
\* starts on the same list. run keeps the files the first call left and
\* whether it ended without a failed fetch or filesystem operation.
Rerun ==
  /\ pc = "Done"
  /\ run.no = 1
  /\ workers = 0
  /\ run' = [no |-> 2, first |-> files,
             clean |-> (ret.kind = "ok" /\ faults = 0 /\ failedObjects = <<>>)]
  /\ pc' = "Fetch"
  /\ results' = <<>>
  /\ fetchTask' = <<>>
  /\ failedObjects' = <<>>
  /\ schemasLeft' = {}
  /\ schema' = ""
  /\ groupsLeft' = {}
  /\ sendQ' = <<>>
  /\ tasks' = NoChan
  /\ workers' = 0
  /\ errChan' = <<>>
  /\ errCount' = 0
  /\ ret' = NoRet
  /\ faults' = 0
  /\ made' = {}
  /\ written' = {}
  /\ errLog' = <<>>
  /\ retPending' = 0
  /\ UNCHANGED notRerunVars

NextRerun ==
  \/ Rerun
  \/ FetchStart
  \/ \E i \in DOMAIN fetchTask : FetchAcquire(i)
  \/ \E i \in DOMAIN fetchTask : FetchFinish(i)
  \/ FetchReturn
  \/ CheckFailed
  \/ MkOutputDir
  \/ SchemaLoop
  \/ TableNext
  \/ Send
  \/ Close
  \/ TableWait
  \/ StandaloneSchemaDir
  \/ StandaloneNext
  \/ StandaloneWait
  \/ Worker

SpecRerun == InitRerun /\ [][NextRerun]_vars

\* ------------------------------------------------- the schema sentinel ALL
\* runExport with --schema ALL: Connector.GetAllSchemas on the schemas the
\* database holds, then the QueryOptions of the QueryObjects call.

\* The schemas a database can hold: those of PostgreSQL itself and schemas
\* that users and extensions create.
SchemaUniverse ==
  { "information_schema", "pg_catalog", "pg_toast", "public", "app", "pg", "pgboss" }

\* The characters of a schema name.
Chars(name) ==
  CASE name = "information_schema" ->
         << "i","n","f","o","r","m","a","t","i","o","n","_","s","c","h","e","m","a" >>
    [] name = "pg_catalog" -> << "p","g","_","c","a","t","a","l","o","g" >>
    [] name = "pg_toast"   -> << "p","g","_","t","o","a","s","t" >>
    [] name = "public"     -> << "p","u","b","l","i","c" >>
    [] name = "app"        -> << "a","p","p" >>
    [] name = "pg"         -> << "p","g" >>
    [] name = "pgboss"     -> << "p","g","b","o","s","s" >>

\* The LIKE operator of SQL: "%" matches any run of characters and "_" any
\* single character.
RECURSIVE Like(_, _)
Like(s, p) ==
  IF p = <<>> THEN s = <<>>
  ELSE IF Head(p) = "%" THEN Like(s, Tail(p)) \/ (s # <<>> /\ Like(Tail(s), p))
  ELSE s # <<>> /\ (Head(p) = "_" \/ Head(p) = Head(s)) /\ Like(Tail(s), Tail(p))

\* "WHERE schema_name NOT LIKE 'pg_%' AND schema_name != 'information_schema'"
SchemaSelected(name) ==
  /\ ~Like(Chars(name), << "p", "g", "_", "%" >>)
  /\ name # "information_schema"

\* The order of the characters in schema names, "_" before the letters.
Alphabet ==
  << "_", "a", "b", "c", "e", "f", "g", "h", "i", "l", "m", "n", "o", "p", "r", "s", "t", "u" >>

CharCode(c) == CHOOSE i \in 1..Len(Alphabet) : Alphabet[i] = c

RECURSIVE LexLess(_, _)
LexLess(a, b) ==
  IF b = <<>> THEN FALSE
  ELSE IF a = <<>> THEN TRUE
  ELSE IF Head(a) = Head(b) THEN LexLess(Tail(a), Tail(b))
  ELSE CharCode(Head(a)) < CharCode(Head(b))

\* "ORDER BY schema_name"
RECURSIVE OrderByName(_)
OrderByName(names) ==
  IF names = {} THEN <<>>
  ELSE LET first == CHOOSE n \in names :
                      \A m \in names \ {n} : LexLess(Chars(n), Chars(m))
       IN << first >> \o OrderByName(names \ {first})

\* Connector.GetAllSchemas on a database that holds the schemas db.
GetAllSchemas(db) == OrderByName({ n \in db : SchemaSelected(n) })

InitAll ==
  /\ continueOnError \in BOOLEAN
  /\ concurrency = 1
  /\ pc = "RunSchemas"
  /\ schemaIdx = 1
  /\ objects = <<>>
  /\ results = <<>>
  /\ fetchTask = <<>>
  /\ failedObjects = <<>>
  /\ dirs = {OutputDir}
  /\ files = << >>
  /\ schemasLeft = {}
  /\ schema = ""
  /\ groupsLeft = {}
  /\ sendQ = <<>>
  /\ tasks = NoChan
  /\ workers = 0
  /\ errChan = <<>>
  /\ errCount = 0
  /\ ret = NoRet
  /\ faults = 0
  /\ made = {}
  /\ written = {}
  /\ errLog = <<>>
  /\ retPending = 0
  /\ CliIdle
  /\ dirMutexes = << >>
  /\ mtxHeld = {}
  /\ mk = << >>
  /\ \E db \in SUBSET SchemaUniverse :
       /\ {"information_schema", "pg_catalog"} \subseteq db
       /\ qry = [db |-> db, schemasList |-> "ALL", schemas |-> <<>>, issued |-> 0]

\* runExport: "if schemasList == "ALL" { allSchemas, err := fetcher.GetAllSchemas() ... }"
RunSchemas ==
  /\ pc = "RunSchemas"
  /\ \/ /\ qry' = [qry EXCEPT !.schemas = GetAllSchemas(qry.db)]
        /\ pc' = "RunQueryObjects"
        /\ UNCHANGED << ret, retPending, faults >>
     \/ /\ CanFail
        /\ faults' = faults + 1
        /\ Return(Err("all_schemas", <<>>))
        /\ qry' = qry
  /\ UNCHANGED << schemaIdx, objects, notQueryVars >>

\* runExport: "fetcher.QueryObjects(types.QueryOptions{..., Schemas: schemas, ...})"
RunQueryObjects ==
  /\ pc = "RunQueryObjects"
  /\ pc' = "QStart"
  /\ UNCHANGED << qry, schemaIdx, objects, ret, retPending, faults, notQueryVars >>

NextAll ==
  \/ RunSchemas
  \/ RunQueryObjects

SpecAll == InitAll /\ [][NextAll]_vars

\* ================================================================ claims
Slots == DOMAIN results
Fetched(i) == results[i].Definition # ""
Returned == pc = "Done" /\ Len(objects) > 0
WriteOf(path, d) == [path |-> path, content |-> d.Definition, schema |-> d.Schema]

\* C1: under the fail policy a non-empty failed list makes ExportObjects
\* return an error carrying exactly the "schema.name" of every failed slot,
\* and the run has created no directory (the output root included) and
\* written no file.
C1_FailPolicyAbortsBeforeFilesystem ==
  (Returned /\ ~continueOnError /\ failedObjects # <<>>) =>
    /\ ret.kind = "fetch_failed"
    /\ Len(ret.info) = Cardinality({ i \in Slots : ~Fetched(i) })
    /\ Range(ret.info) = { results[i].Schema \o "." \o results[i].Name :
                             i \in { j \in Slots : ~Fetched(j) } }
    /\ made = {}
    /\ written = {}
    /\ DOMAIN files = {}

\* C1 witness: a partial failure under the fail policy has returned: one
\* definition was fetched, another failed.
C1_Witness ==
  /\ Returned /\ ~continueOnError /\ ret.kind = "fetch_failed"
  /\ \E i, j \in Slots : Fetched(i) /\ ~Fetched(j) /\ fetchTask[i] = "done"
  /\ dirs = {}

\* C2: after a successful run without filesystem failures over pairwise
\* distinct descriptors, the files are one-to-one with the descriptors whose
\* definition is non-empty, and a descriptor with an empty definition has no
\* file.
C2_OneFilePerFetchedDescriptor ==
  (/\ Returned /\ ret.kind = "ok" /\ faults = 0
   /\ \A i, j \in Slots : i # j => results[i] # results[j]) =>
    /\ DOMAIN files = { ExportPath(results[i]) : i \in { j \in Slots : Fetched(j) } }
    /\ \A i, j \in Slots : (i # j /\ Fetched(i) /\ Fetched(j)) =>
         ExportPath(results[i]) # ExportPath(results[j])
    /\ \A i \in Slots : ~Fetched(i) => ExportPath(results[i]) \notin DOMAIN files

\* C3: no definition fetch starts before discovery has returned its complete
\* list, and nothing is written or created, and no export call runs, before
\* every definition fetch has completed.
C3_PhasesOrdered ==
  /\ (fetchTask # <<>>) =>
       /\ pc # "QueryObjects"
       /\ schemaIdx > Len(RequestSchemas)
       /\ Len(fetchTask) = Len(objects)
       /\ \A i \in Slots : /\ results[i].Type = objects[i].Type
                           /\ results[i].Schema = objects[i].Schema
                           /\ results[i].Name = objects[i].Name
  /\ (\/ made # {} \/ written # {} \/ DOMAIN files # {} \/ workers > 0
      \/ pc \notin {"QueryObjects", "Fetch", "FetchWait"}) =>
       \A i \in DOMAIN fetchTask : fetchTask[i] \in {"skip", "done", "failed"}

\* C3 witness: a file has been written in a run that fetched two definitions.
C3_Witness ==
  /\ written # {}
  /\ Cardinality({ i \in DOMAIN fetchTask : fetchTask[i] = "done" }) >= 2

\* C4: under the warn policy, when no filesystem operation fails, ExportObjects
\* returns success whatever the number of failed definition fetches, and every
\* descriptor whose definition was fetched has been written to its file.
C4_WarnSucceedsDespiteFetchFailures ==
  (Returned /\ continueOnError /\ faults = 0) =>
    /\ ret.kind = "ok"
    /\ \A i \in Slots : Fetched(i) =>
         /\ WriteOf(ExportPath(results[i]), results[i]) \in written
         /\ ExportPath(results[i]) \in DOMAIN files

\* C4 witness: a warn run has returned success after one fetch failed and
\* another succeeded.
C4_Witness ==
  /\ Returned /\ continueOnError /\ ret.kind = "ok"
  /\ \E i, j \in Slots : /\ fetchTask[i] = "done" /\ Fetched(i)
                         /\ fetchTask[j] = "failed" /\ ~Fetched(j)
                         /\ ExportPath(results[i]) \in DOMAIN files

\* C5: in continue-on-error mode the export calls never abort the run: they
\* do not crash it, and the only error ExportObjects can return is its own
\* failure to create the output root.
C5_ContinueModeNeverAborts ==
  continueOnError =>
    /\ pc # "Panic"
    /\ Returned => (ret.kind = "ok" \/ ret = Err("mkdir", OutputDir))

\* C6: in fail-fast mode an export call that failed returns the first error
\* recorded, and returns only after every worker of its pool has exited.
C6_FailFastReturnsAfterDrain ==
  (Returned /\ ~continueOnError /\ ret.kind \in {"mkdir", "write"} /\ ret.info # OutputDir) =>
    /\ retPending = 0
    /\ ret = errLog[1]

OwnerTypes == {"trigger", "index", "constraint", "policy", "rule", "sequence"}

Plural(ty) ==
  CASE ty = "trigger"    -> "triggers"
    [] ty = "index"      -> "indexes"
    [] ty = "constraint" -> "constraints"
    [] ty = "policy"     -> "policies"
    [] ty = "rule"       -> "rules"
    [] ty = "sequence"   -> "sequences"

\* C7: after a successful run without filesystem failures, every descriptor of
\* an owner-expecting type with a non-empty owning table has its file at
\* <root>/<schema>/tables/<owning table>/<plural of type>/<name>.sql.
C7_OwnedObjectsNestedUnderTable ==
  (Returned /\ ret.kind = "ok" /\ faults = 0) =>
    \A i \in Slots :
      (results[i].Type \in OwnerTypes /\ results[i].TableName # "" /\ Fetched(i)) =>
        << "out", results[i].Schema, "tables", results[i].TableName,
           Plural(results[i].Type), results[i].Name \o ".sql" >> \in DOMAIN files

\* C8: when no filesystem operation fails and the fetch phase does not abort
\* the run, the export succeeds and every descriptor of an owner-expecting type
\* with an empty owning table is written to <root>/<schema>/<type>s/<name>.sql.
C8_OwnerlessWrittenStandalone ==
  (Returned /\ faults = 0 /\ (continueOnError \/ failedObjects = <<>>)) =>
    /\ ret.kind = "ok"
    /\ \A i \in Slots :
         (results[i].Type \in OwnerTypes /\ results[i].TableName = "") =>
           WriteOf(<< "out", results[i].Schema, results[i].Type \o "s",
                      results[i].Name \o ".sql" >>, results[i]) \in written

\* C8 witness: a fail-policy run has returned success with a trigger that has
\* no owning table in its list, exported beside a table.
C8_Witness ==
  /\ Returned /\ ~continueOnError /\ ret.kind = "ok"
  /\ \E i \in Slots : results[i].Type = "trigger" /\ results[i].TableName = ""
  /\ \E i \in Slots : results[i].Type = "table"
  /\ << "out", "s1", "triggers", "g1.sql" >> \in DOMAIN files

\* C9: every file written for a descriptor of schema s lies under <root>/s/,
\* and no file lies under the directories of two schemas.
C9_FilesPartitionedBySchema ==
  /\ \A w \in written :
       /\ IsPrefix(<< "out", w.schema >>, w.path)
       /\ \E i \in Slots : results[i].Schema = w.schema /\ results[i].Definition = w.content
  /\ \A p \in DOMAIN files :
       /\ \E w \in written : w.path = p
       /\ Cardinality({ s \in { results[i].Schema : i \in Slots } :
                          IsPrefix(<< "out", s >>, p) }) = 1

\* C9 witness: files of two schemas exist.
C9_Witness ==
  \E p, q \in DOMAIN files : p[2] = "s1" /\ q[2] = "s2"

\* C10: all callers of safelyMkdir for one directory hold the same mutex, at
\* most one goroutine at a time is between Lock and Unlock for a directory,
\* no call fails with ENOENT or EEXIST, and a call that returns nil leaves
\* the directory in place.
C10_DirectoryCreationRaceFree ==
  \A g, h \in DOMAIN mk :
    /\ (mk[g].pc # "idle" /\ mk[h].pc # "idle" /\ mk[g].dir = mk[h].dir) =>
         mk[g].mtx = mk[h].mtx
    /\ (/\ g # h
        /\ mk[g].pc \in {"stat", "mkdirall", "mkdir", "unlock"}
        /\ mk[h].pc \in {"stat", "mkdirall", "mkdir", "unlock"}) =>
         mk[g].dir # mk[h].dir
    /\ mk[g].err \notin {"ENOENT", "EEXIST"}
    /\ (mk[g].pc = "done" /\ mk[g].err = "nil") => mk[g].dir \in dirs

\* C10 witness: one goroutine is creating the components of a directory while
\* another waits for the mutex of the same directory, after a directory next
\* to it was created.
C10_Witness ==
  \E g, h \in DOMAIN mk :
    /\ g # h
    /\ mk[g].pc = "mkdir" /\ mk[h].pc = "lock"
    /\ mk[g].dir = mk[h].dir
    /\ mk[g].mtx \in mtxHeld
    /\ mk[g].dir = << "out", "s1", "tables", "t1", "indexes" >>
    /\ << "out", "s1", "tables", "t1", "constraints" >> \in dirs

\* The key that identifies an object within one export run.
ObjectKey(d) == << d.Type, d.Schema, d.Name >>

\* C11: the descriptor list QueryObjects returns holds no two descriptors with
\* the same (type, schema, name).
C11_DiscoveryHasNoDuplicates ==
  (pc = "Fetch" /\ qry # << >>) =>
    \A i, j \in 1..Len(objects) : i # j => ObjectKey(objects[i]) # ObjectKey(objects[j])

\* C12: for a request with a non-empty type set, every descriptor QueryObjects
\* returns has a requested type.
C12_DiscoveryReturnsRequestedTypes ==
  (pc = "Fetch" /\ qry # << >> /\ qry.types # {}) =>
    \A i \in 1..Len(objects) : objects[i].Type \in qry.types

\* The schemas of the request that the database does not have.
MissingSchemas ==
  { i \in 1..Len(EffectiveSchemas(qry.schemas)) :
      EffectiveSchemas(qry.schemas)[i] \notin ExistingSchemas }

\* C13: when the request names a schema that does not exist, QueryObjects
\* issues no per-type query and returns no descriptor, under both policies;
\* it ends with an error, which is the schema-not-found error of the first
\* missing schema whenever the pattern compiles and the existence checks
\* themselves run.
C13_MissingSchemaIsFatalBeforeDiscovery ==
  (qry # << >> /\ MissingSchemas # {}) =>
    /\ qry.issued = 0
    /\ objects = <<>>
    /\ pc \in {"QStart", "QExists", "Done"}
    /\ pc = "Done" =>
         /\ ret.kind \in {"regex", "exists_check", "schema_not_found"}
         /\ (RegexCompiles(qry.pattern) /\ faults = 0) =>
              \E i \in MissingSchemas :
                /\ \A j \in MissingSchemas : i <= j
                /\ ret = Err("schema_not_found", << qry.schemas[i] >>)

\* C13 witness: the second schema of the request is the missing one, the
\* policy is warn, and the run has ended with schema-not-found.
C13_Witness ==
  /\ qry # << >>
  /\ continueOnError
  /\ pc = "Done"
  /\ qry.schemas = << "s1", "nx" >>
  /\ qry.types = {}
  /\ ret = Err("schema_not_found", << "nx" >>)
  /\ qry.issued = 0

\* C14: under the warn policy a failed catalog query does not end the run.
C14_WarnSkipsFailedCatalogQuery ==
  (qry # << >> /\ continueOnError) => ~(pc = "Done" /\ ret.kind = "query")

\* FetchObjectsDefinitionsConcurrently has returned.
FetchReturned == pc \notin {"QueryObjects", "Fetch", "FetchWait"}

\* C15: an export whose list holds a descriptor of a type outside the
\* ObjectType enumeration ends with an error under both policies.
C15_UnsupportedTypeIsFatal ==
  (/\ \E i \in 1..Len(objects) : ~IsValidType(objects[i].Type)
   /\ pc \notin {"Fetch", "FetchWait", "CheckFailed"}) =>
    (pc = "Done" /\ ret.kind = "fetch_failed")

\* C16: from the copy on, the result array has the length of the input and
\* slot i holds the type, schema, name and owning table of input i.
C16_ResultsKeepInputOrder ==
  (pc \notin {"QueryObjects", "Fetch"}) =>
    /\ Len(results) = Len(objects)
    /\ \A i \in 1..Len(objects) :
         /\ results[i].Type = objects[i].Type
         /\ results[i].Schema = objects[i].Schema
         /\ results[i].Name = objects[i].Name
         /\ results[i].TableName = objects[i].TableName

\* C16 witness: the fetch has returned two different descriptors, the second
\* fetched and the first failed.
C16_Witness ==
  /\ pc = "CheckFailed"
  /\ Len(objects) = 2 /\ objects[1] # objects[2]
  /\ fetchTask[1] = "failed" /\ fetchTask[2] = "done"
  /\ Len(failedObjects) = 1

\* The number of entries of a list that equal x.
Count(list, x) == Cardinality({ k \in 1..Len(list) : list[k] = x })

\* C17: when the fetch has returned, a slot has an empty definition exactly
\* when its task failed, and the failed list holds each "schema.name" as many
\* times as tasks of that name failed.
C17_FailedListMatchesFailedTasks ==
  FetchReturned =>
    /\ \A i \in DOMAIN fetchTask :
         (results[i].Definition = "") <=> (fetchTask[i] = "failed")
    /\ \A d \in FetchInputs \cup CatalogRows :
         Count(failedObjects, FailedName(d)) =
           Cardinality({ i \in DOMAIN fetchTask :
                           fetchTask[i] = "failed" /\ FailedName(results[i]) = FailedName(d) })
    /\ Len(failedObjects) = Cardinality({ i \in DOMAIN fetchTask : fetchTask[i] = "failed" })

\* C17 witness: two tasks have failed and the fetch has returned.
C17_Witness ==
  /\ pc = "CheckFailed"
  /\ Len(fetchTask) = 2
  /\ fetchTask[1] = "failed" /\ fetchTask[2] = "failed"
  /\ Len(failedObjects) = 2
  /\ failedObjects[1] = FailedName(results[2])
  /\ results[1] # results[2]

\* C18: a descriptor that enters the fetch with a definition keeps it, gets
\* no task (no DDL query) and is not named in the failed list.
C18_PresetDefinitionUntouched ==
  (pc \notin {"QueryObjects", "Fetch"}) =>
    \A i \in 1..Len(objects) :
      objects[i].Definition # "" =>
        /\ results[i].Definition = objects[i].Definition
        /\ fetchTask[i] = "skip"
        /\ Count(failedObjects, FailedName(objects[i])) = 0

\* C18 witness: the fetch has returned a constraint with its definition next
\* to a descriptor whose fetch failed.
C18_Witness ==
  /\ pc = "CheckFailed"
  /\ Len(objects) = 2
  /\ fetchTask[1] = "failed"
  /\ objects[2].Type = "constraint" /\ objects[2].Definition # ""
  /\ results[2] = objects[2]

\* C19: the number of tasks between acquiring and releasing the semaphore
\* never exceeds the budget (10 for a budget <= 0).
C19_InFlightWithinBudget ==
  Cardinality(Running) <= (IF concurrency <= 0 THEN 10 ELSE concurrency)

\* C19 witness: with budget 1, one task holds the semaphore and another
\* waits for it.
C19_Witness ==
  /\ concurrency = 1
  /\ \E i, j \in DOMAIN fetchTask : fetchTask[i] = "run" /\ fetchTask[j] = "wait"

\* C20: in a run of an Exporter with default settings the semaphore of the
\* definition fetch admits 10 tasks, whatever the file-write budget.
C20_DefaultFetchBudgetIsTen ==
  (pc = "FetchWait" /\ concurrency = NewConcurrency) => SemCapacity = 10

\* ------------------------------------------------- the fetch, scheduled
\* The Go scheduler runs every runnable goroutine, sync.WaitGroup wakes its
\* waiter and a DDL query returns (with a row or an error): a step of the fetch
\* that stays possible is taken.
SpecFetchLive == SpecFetch /\ WF_vars(NextFetch)

\* C21: for every input list and budget (also a budget <= 0 and one smaller
\* than the number of tasks) the fetch returns, it returns only when every
\* started task has completed, and it returns no error.
C21_FetchAlwaysReturns ==
  /\ (pc = "Fetch") ~> (pc = "CheckFailed")
  /\ [](pc = "CheckFailed" => (FetchWaitDone /\ ret = NoRet))

\* C21 witness: with a budget <= 0 the fetch of two descriptors has returned,
\* one task fetched and one failed.
C21_Witness ==
  /\ pc = "CheckFailed"
  /\ concurrency <= 0
  /\ Len(fetchTask) = 2
  /\ fetchTask[1] = "done" /\ fetchTask[2] = "failed"

\* C22: the fetch never changes the list it was given (it writes to its copy
\* only), and a slot of the copy changes only in the step in which the task of
\* that slot completes, so no slot is written by two tasks.
C22_FetchWritesOnlyItsOwnSlot ==
  [][ /\ objects' = objects
      /\ pc = "FetchWait" =>
           \A i \in DOMAIN results :
             results'[i] # results[i] =>
               /\ fetchTask[i] = "run" /\ fetchTask'[i] = "done"
               /\ \A j \in DOMAIN fetchTask \ {i} : fetchTask'[j] = fetchTask[j] ]_vars

\* C22 witness: two tasks have each filled their slot of the copy and the
\* input list still holds the two descriptors without definitions.
C22_Witness ==
  /\ pc = "FetchWait"
  /\ Len(objects) = 2
  /\ objects[1].Definition = "" /\ objects[2].Definition = ""
  /\ results[1].Definition = DDL(objects[1])
  /\ results[2].Definition = DDL(objects[2])
  /\ objects[1] # objects[2]

\* C23: once the context of an export run is cancelled, no file write starts
\* any more in the export stage (and the call returns after the tasks in
\* flight).
C23_NoFileWriteAfterCancel ==
  [][cancelled => written' = written]_vars

Defaults(conns) == { i \in 1..Len(conns) : conns[i].IsDefault }

\* C27: starting from the empty configuration, as long as every call of
\* AddConnection, SetDefaultConnection and DeleteConnection has succeeded, a
\* non-empty store has exactly one default connection.
C27_ExactlyOneDefault ==
  (callErrors = {} /\ Len(connections) > 0) => Cardinality(Defaults(connections)) = 1

\* C27 witness: after successful calls only, the store holds two connections
\* and the second, added or set as default later, is the only default.
C27_Witness ==
  /\ callErrors = {}
  /\ Len(connections) = 2
  /\ Defaults(connections) = {2}

\* C28: no stored connection has the empty name and no two stored connections
\* have the same name, whatever calls were made and rejected.
C28_NamesUniqueAndNonEmpty ==
  /\ \A i \in 1..Len(connections) : connections[i].Name # ""
  /\ \A i, j \in 1..Len(connections) :
       connections[i].Name = connections[j].Name => i = j

\* C28 witness: AddConnection has rejected an empty name and a name already
\* stored, and the store holds two connections.
C28_Witness ==
  /\ {"empty_name", "duplicate"} \subseteq callErrors
  /\ Len(connections) = 2

\* C24: when discovery finds nothing, the export command reports it, returns
\* success and has created no file and no directory.
C24_EmptyDiscoveryCreatesNothing ==
  (pc = "Done" /\ ret.kind = "no_objects") => (made = {} /\ written = {})

Resolved == run.loaded /\ pc # "RunResolve"

\* C29: a --connection name that is stored selects that connection and one
\* that is not stored is an error; without a name the connection marked
\* default is used, else the only connection when exactly one is stored; in
\* every other case the command fails, and a command that fails here has
\* opened no database connection.
C29_ConnectionResolution ==
  Resolved =>
    LET named    == { i \in 1..Len(connections) : connections[i].Name = run.connName }
        defaults == { i \in 1..Len(connections) : connections[i].IsDefault }
        failedAs(e) == pc = "Done" /\ ret.kind = e /\ run.conn = "" /\ ~run.dbOpened
    IN IF run.connName # ""
         THEN IF named # {} THEN run.conn = run.connName
                            ELSE failedAs("connection_not_found")
       ELSE IF defaults # {}
         THEN \E i \in defaults : run.conn = connections[i].Name
       ELSE IF Len(connections) = 1
         THEN run.conn = connections[1].Name
       ELSE failedAs("no_default_connection")

\* C29 witness: without --connection and with one stored connection that is
\* not marked default, the command has opened the database of that connection.
C29_Witness ==
  /\ run.connName = ""
  /\ Len(connections) = 1
  /\ ~connections[1].IsDefault
  /\ run.conn = connections[1].Name
  /\ run.dbOpened

\* C30: an --on-error value other than fail and warn makes the command return
\* an error with the output directory not created, the configuration not
\* loaded and no database connection opened.
C30_InvalidOnErrorRejectedFirst ==
  (run.onError \notin {"fail", "warn"}) =>
    /\ pc \in {"RunValidate", "Done"}
    /\ pc = "Done" => ret.kind = "invalid_on_error"
    /\ made = {}
    /\ ~run.loaded
    /\ ~run.dbOpened

\* C30 witness: the command has returned the error for --on-error=ignore and
\* neither the output directory nor the config directory exists.
C30_Witness ==
  /\ pc = "Done"
  /\ ret.kind = "invalid_on_error"
  /\ run.onError = "ignore"
  /\ dirs = {}

CleanReturn == pc = "Done" /\ ret.kind = "ok" /\ faults = 0 /\ failedObjects = <<>>

\* C25: a successful run writes the same files whatever the number of
\* workers, and the number of files it leaves is the number of descriptors it
\* exported.
C25_OneFilePerExportedDescriptor ==
  (CleanReturn /\ run.no = 1) => Cardinality(DOMAIN files) = Len(results)

C31_InvalidRegexFailsBeforeAnyQuery ==
  (qry.pattern = "(") =>
    /\ pc \in {"QStart", "Done"}
    /\ pc = "Done" => ret.kind = "regex"
    /\ objects = <<>>
    /\ qry.issued = 0
    /\ schemaIdx = 1
    /\ faults = 0

\* C31 witness: under the warn policy a request for two schemas with the
\* pattern "(" has returned the error of the pattern.
C31_Witness ==
  /\ pc = "Done"
  /\ ret.kind = "regex"
  /\ continueOnError
  /\ Len(qry.schemas) = 2
  /\ objects = <<>>

\* The schemas of PostgreSQL itself: information_schema and the names that
\* begin with "pg_".
IsSystemSchema(name) ==
  \/ name = "information_schema"
  \/ (Len(Chars(name)) >= 3 /\ SubSeq(Chars(name), 1, 3) = << "p", "g", "_" >>)

\* C32: with the sentinel ALL the schemas handed to discovery are exactly the
\* schemas of the database that are not system schemas, in sorted order, and
\* they are resolved before the first query of discovery.
C32_AllMeansEveryNonSystemSchema ==
  /\ (pc = "RunQueryObjects") =>
       /\ Range(qry.schemas) = { n \in qry.db : ~IsSystemSchema(n) }
       /\ \A i, j \in 1..Len(qry.schemas) :
            i < j => LexLess(Chars(qry.schemas[i]), Chars(qry.schemas[j]))
       /\ qry.issued = 0
  /\ (pc = "RunSchemas") => qry.issued = 0

DatabaseLevel(d) == d.Type \in {"publication", "subscription"}

\* C33: whatever the number of requested schemas, no publication or
\* subscription is in the descriptor list more than once, and none is
\* collected by the loop over the schemas: they come from the one query per
\* type that follows the loop.
C33_DatabaseLevelObjectsOnce ==
  /\ \A d \in { c \in QueryCatalog : DatabaseLevel(c) } : Count(objects, d) <= 1
  /\ pc \in {"QStart", "QExists", "QSchema"} =>
       \A i \in 1..Len(objects) : ~DatabaseLevel(objects[i])

\* C33 witness: a request for two different schemas has returned a list that
\* holds the publication and the subscription.
C33_Witness ==
  /\ pc = "Fetch"
  /\ Len(qry.schemas) = 2
  /\ qry.schemas[1] # qry.schemas[2]
  /\ \E i, j \in 1..Len(objects) :
       objects[i].Type = "publication" /\ objects[j].Type = "subscription"

\* C34: in every export call, under both policies and whatever directory
\* creations fail, the tasks channel is closed once and nothing is sent on it
\* once it is closed: the run never reaches the panic of a second close or of
\* a send on the closed channel.
C34_TasksClosedOnceNoSendAfter ==
  ~(pc = "Panic" /\ tasks.closed)

\* C35: a call on the Config that returns an error for an empty, duplicate or
\* unknown name leaves the connections as they were, default flags included.
C35_RejectedCallChangesNothing ==
  [][ ((callErrors' \ callErrors) \cap {"empty_name", "duplicate", "not_found"} # {})
        => connections' = connections ]_vars

\* ------------------------------------------- descriptors that share a name
\* ExportObjects on a list in which two row-level-security policies of the
\* same name belong to two tables of one schema: PostgreSQL keeps policy names
\* unique per table only, and queryPolicies returns one row per policy with
\* its table_name.
PathInputs ==
  { DBObject("table",  "s1", "t1", "",   ""),
    DBObject("policy", "s1", "p1", "t1", ""),
    DBObject("policy", "s1", "p1", "t2", "") }

\* Discovery returns every policy and every table once.
PathLists == { l \in SeqsUpTo(PathInputs, MaxObjs) \ { <<>> } : NoRepeat(l) }

InitPaths ==
  /\ continueOnError \in BOOLEAN
  /\ concurrency \in 1..MaxWorkers
  /\ pc = "Fetch"
  /\ schemaIdx = 1
  /\ objects \in PathLists
  /\ results = <<>>
  /\ fetchTask = <<>>
  /\ failedObjects = <<>>
  /\ dirs = {OutputDir}
  /\ files = << >>
  /\ schemasLeft = {}
  /\ schema = ""
  /\ groupsLeft = {}
  /\ sendQ = <<>>
  /\ tasks = NoChan
  /\ workers = 0
  /\ errChan = <<>>
  /\ errCount = 0
  /\ ret = NoRet
  /\ faults = 0
  /\ made = {}
  /\ written = {}
  /\ errLog = <<>>
  /\ retPending = 0
  /\ cancelled = FALSE
  /\ connections = <<>>
  /\ callErrors = {}
  /\ logs = {}
  /\ run = [no |-> 1, first |-> << >>, clean |-> FALSE]
  /\ dirMutexes = << >>
  /\ mtxHeld = {}
  /\ mk = << >>
  /\ qry = << >>

SpecPaths == InitPaths /\ [][NextRerun]_vars

\* What the claim tells two descriptors apart by.
DescriptorKey(d) == << d.Type, d.Schema, d.TableName, d.Name >>

\* C36: two descriptors of one run that differ in type, schema, owning table
\* or name are written to different files: a run that ended without a failed
\* fetch or filesystem operation leaves at least as many files as its list
\* has descriptors that differ in one of the four.
C36_DifferentDescriptorsDifferentFiles ==
  (CleanReturn /\ run.no = 1) =>
    Cardinality(DOMAIN files) >= Cardinality({ DescriptorKey(results[i]) : i \in DOMAIN results })

\* ------------------------------------------------ the worker pools on their own
\* ExportObjects on lists that give one table more tasks than the buffer of its
\* tasks channel holds: five constraints of table t1 (a constraint carries its
\* definition from discovery), the table itself and a view.
PoolList ==
  << DBObject("constraint", "s1", "c1", "t1", "CHECK (c1)"),
     DBObject("constraint", "s1", "c2", "t1", "CHECK (c2)"),
     DBObject("constraint", "s1", "c3", "t1", "CHECK (c3)"),
     DBObject("constraint", "s1", "c4", "t1", "CHECK (c4)"),
     DBObject("constraint", "s1", "c5", "t1", "CHECK (c5)"),
     DBObject("table",      "s1", "t1", "",   ""),
     DBObject("view",       "s1", "v1", "",   "") >>

PoolLists == { SubSeq(PoolList, 1, n) : n \in 4..Len(PoolList) }

\* e.concurrency after New and two calls of WithConcurrency.
PoolWorkers ==
  { WithConcurrency(WithConcurrency(NewConcurrency, a), b) : a, b \in -1..MaxWorkers }

InitPool ==
  /\ continueOnError \in BOOLEAN
  /\ concurrency \in PoolWorkers
  /\ pc = "Fetch"
  /\ schemaIdx = 1
  /\ objects \in PoolLists
  /\ results = <<>>
  /\ fetchTask = <<>>
  /\ failedObjects = <<>>
  /\ dirs = {OutputDir}
  /\ files = << >>
  /\ schemasLeft = {}
  /\ schema = ""
  /\ groupsLeft = {}
  /\ sendQ = <<>>
  /\ tasks = NoChan
  /\ workers = 0
  /\ errChan = <<>>
  /\ errCount = 0
  /\ ret = NoRet
  /\ faults = 0
  /\ made = {}
  /\ written = {}
  /\ errLog = <<>>
  /\ retPending = 0
  /\ cancelled = FALSE
  /\ connections = <<>>
  /\ callErrors = {}
  /\ logs = {}
  /\ run = [faultBudget |-> MaxPoolFaults]
  /\ dirMutexes = << >>
  /\ mtxHeld = {}
  /\ mk = << >>
  /\ qry = << >>

NextPool ==
  \/ FetchStart
  \/ \E i \in DOMAIN fetchTask : FetchAcquire(i)
  \/ \E i \in DOMAIN fetchTask : FetchFinish(i)
  \/ FetchReturn
  \/ CheckFailed
  \/ MkOutputDir
  \/ SchemaLoop
  \/ TableNext
  \/ Send
  \/ Close
  \/ TableWait
  \/ StandaloneSchemaDir
  \/ StandaloneNext
  \/ StandaloneWait
  \/ Worker

SpecPool == InitPool /\ [][NextPool]_vars

\* The Go scheduler runs a goroutine that can take a step: the producer while
\* it is not blocked on the channel, a worker while there is a task to
\* receive or the channel is closed.
SpecPoolLive == SpecPool /\ WF_vars(NextPool)

\* C37: with at least one worker, for lists with more tasks than the channel
\* buffer holds and whichever writes fail, every export call ends: either
\* ExportObjects has returned and every worker of the pool has left its loop,
\* or the run has died in the panic of a channel closed twice; neither the
\* producer nor a worker waits forever.
C37_ExportCallsTerminate ==
  <>(pc = "Panic" \/ (pc = "Done" /\ workers = 0))

\* C37 witness: one worker, fail policy, five constraint files for a channel
\* of four slots, two failed writes offered to the error channel, and the
\* call has returned the first of them after the worker left.
C37_Witness ==
  /\ pc = "Done" /\ workers = 0
  /\ ~continueOnError /\ concurrency = 1
  /\ Len(results) = 5
  /\ faults = 2 /\ Len(errLog) = 2
  /\ ret = errLog[1] /\ ret.kind = "write"
  /\ Cardinality(written) = 3

\* A part of a message that shows the password of a url argument: the
\* password itself, or a URL that carries it.
ShowsPassword(part) ==
  part \in {"pw", "postgres://u:pw@h/db", "postgres://u:pw@h:x/db"}

\* C38: no log message of any level and no error text produced by a command
\* on the connections contains the password of the connection URL it was given.
C38_PasswordNeverLoggedOrReturned ==
  \A m \in logs : \A i \in 1..Len(m.text) : ~ShowsPassword(m.text[i])

====
